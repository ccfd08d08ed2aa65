-------------------------- MODULE MCLevelVersions ---------------------------
EXTENDS LevelVersions
TwoKeys == 1 .. 2
NoRanges == {}
\* One key is written; another is written and deleted
SplitWrites == {<<1, FALSE>>, <<2, FALSE>>, <<2, TRUE>>}
=============================================================================
