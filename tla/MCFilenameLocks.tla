-------------------------- MODULE MCFilenameLocks --------------------------
\* Three ingest tasks over two filenames: two can collide on one name while a
\* third waits for either.
EXTENDS FilenameLocks

CONSTANTS download, upload, watcher, book, comic

MCCallers == {download, upload, watcher}
MCFilenames == {book, comic}
=============================================================================
