-------------------------- MODULE MCDownloadQueue --------------------------
\* Instances of the download queue: one row with every operation on it, and two
\* rows of one url that two clients start.
EXTENDS DownloadQueue, TLC

CONSTANTS book, twin, tab, phone

\* Symmetry: a client is its place in the handlers, nothing else.
AnyClient == Permutations({tab, phone})

OneItem == {book}
TwoItems == {book, twin}
SameUrl == [i \in {book, twin} |-> "url"]
OneClient == {tab}
TwoClients == {tab, phone}

AllRequests == {"start", "stop", "pause", "delete", "patch", "confirm"}
StartAndConfirm == {"start", "confirm"}
StartStopDelete == {"start", "stop", "delete"}

AllBackground == {"drain", "meta", "sweep"}
NoBackground == {}
=============================================================================
