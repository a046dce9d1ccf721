------------------------------ MODULE MCMotion ------------------------------
(* Motion with two motions and a few people, in parts that differ in their *)
(* constants; a run checks one part or two, and no step leads from one to  *)
(* another.                                                                *)
EXTENDS Motion, TLC

CONSTANTS Law, Other, Ada, Ben

VARIABLE part

\* Laws only; or Law and Other change the required signatures.
NoParameters == [m \in Motions |-> 0]
OtherLowers  == [m \in Motions |-> IF m = Other THEN 1 ELSE 0]
BothPropose  == [m \in Motions |-> IF m = Law THEN 1 ELSE 2]

\* Two laws, and a command that may fail.
Laws == INSTANCE Motion WITH Proposes <- NoParameters, MaxMissed <- 0

\* Two parameter motions, and a command that may miss a day.
Params == INSTANCE Motion WITH MaxFailures <- 0

OrderlySpec ==
    /\ part \in {"laws", "parameters"} /\ Init
    /\ [][/\ IF part = "laws" THEN Laws!Next ELSE Params!Next
          /\ UNCHANGED part]_<<part, vars>>

\* A law and a parameter motion whose author may leave, and a command that may
\* break off or fail to apply an effect; no request overlaps another step.
Faulty == INSTANCE Motion WITH Proposes <- OtherLowers, Leavers <- {Ada},
            Overlapping <- {}, MaxOpens <- 0, MaxFailures <- 1

(* The scheduler runs the command every day and a run goes on; days pass;  *)
(* requests end.                                                           *)
CommandRuns == (IF part = "faulty" THEN Faulty!Run ELSE Run) /\ UNCHANGED part
DayPasses == (IF part = "faulty" THEN Faulty!Tick ELSE Tick) /\ UNCHANGED part
RequestEnds == part = "overlapping" /\ (\E r \in open : Proceed(r)) /\ UNCHANGED part

OverlapSpec ==
    /\ part \in {"overlapping", "faulty"} /\ Init
    /\ [][/\ IF part = "faulty" THEN Faulty!Next ELSE Next
          /\ UNCHANGED part]_<<part, vars>>
    /\ WF_<<part, vars>>(CommandRuns) /\ WF_<<part, vars>>(DayPasses)
    /\ WF_<<part, vars>>(RequestEnds)

\* One part, with the constants as they are.
OneSpec == part = "one" /\ Init /\ [][Next /\ UNCHANGED part]_<<part, vars>>

Alike == Permutations(People)
=============================================================================
