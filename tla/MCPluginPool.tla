---------------------------- MODULE MCPluginPool ----------------------------
\* An instance of the plugin pool: three calls of one plugin.
EXTENDS PluginPool

CONSTANT ehentai

OnePlugin == {ehentai}
OneCalled == <<ehentai, ehentai, ehentai>>
=============================================================================
