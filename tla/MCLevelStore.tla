---------------------------- MODULE MCLevelStore ----------------------------
(* Three writers, of whom one asks for a synced write and one only for the     *)
(* memtable to be put aside.  Writes stop either when a merge is due, so that  *)
(* they wait for it, or one table later, so that memtables fill while a merge  *)
(* is under way.                                                               *)
EXTENDS LevelStore
CONSTANTS w1, w2, w3
AllWriters == {w1, w2, w3}
OneSync == {w2}
OneNull == {w3}
SomeFaults == {"append", "sync", "table", "manifest", "newlog"}

VARIABLE stopsEarly
Early == INSTANCE LevelStore WITH L0Stop <- L0Trigger

EitherInit == StoreInit /\ stopsEarly \in BOOLEAN
EitherNext == /\ IF stopsEarly THEN Early!StoreNext ELSE StoreNext
              /\ UNCHANGED stopsEarly
EitherWrite == IF stopsEarly THEN Early!WriteStep ELSE WriteStep
EitherBackground == IF stopsEarly THEN Early!BackgroundStep ELSE BackgroundStep
\* The threads of the store run; nobody has to write, fail, crash or close.
EitherSpec ==
    /\ EitherInit /\ [][EitherNext]_<<storeVars, stopsEarly>>
    /\ WF_<<storeVars, stopsEarly>>(EitherWrite /\ UNCHANGED stopsEarly)
    /\ WF_<<storeVars, stopsEarly>>(EitherBackground /\ UNCHANGED stopsEarly)
=============================================================================
