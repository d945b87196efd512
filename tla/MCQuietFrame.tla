---------------------------- MODULE MCQuietFrame ----------------------------
EXTENDS QuietFrame, TLC

SomeLayouts == {{}, {2}, {1, 3}, {1, 2, 3}}
OneLayout == {{1, 3}}
=============================================================================
