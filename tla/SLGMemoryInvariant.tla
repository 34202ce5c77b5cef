--------------------------- MODULE SLGMemoryInvariant ---------------------------
(***************************************************************************)
(* Why the freeze registers keep what suspended calls need and nothing     *)
(* else.  Below a generator of an open table lies the part of each stack   *)
(* that was in use when its table was called: what runs has it below too,  *)
(* on every stack, and everything made since lies above it.  So a call     *)
(* that suspends freezes the generators it comes to depend on, and the     *)
(* registers a leader saved are, when it completes, what the calls of      *)
(* older tables need.                                                      *)
(***************************************************************************)
EXTENDS SLGMemory, SLGEngineInvariant

\* The table s has a generator, for which saved[sf[s].cp] holds the registers.
Generating(s) == OpenTable(s) /\ IsGenerator(sf[s].cp)
Base(s) == saved[sf[s].cp]
SuspendedCalls == UNION {Consumers(s) : s \in {t \in Subgoal : OpenTable(t)}}

\* The trail, a tree, branches above every generator only.
TrailAboveGenerators ==
  \A s \in Subgoal : Generating(s) =>
    /\ Base(s).tr \in Path(mem, mem.tr)
    /\ \A c \in SuspendedCalls : sf[s].cp < c => Base(s).tr \in Path(mem, saved[c].tr)
    /\ \A t \in Subgoal : Generating(t) /\ sf[s].cp < sf[t].cp => Base(s).tr \in Path(mem, Base(t).tr)

\* The heap and the local stack lie above every generator, as do newer choice points.
StacksAboveGenerators ==
  \A s \in Subgoal : Generating(s) =>
    /\ Base(s).h <= mem.hb /\ Base(s).eb <= mem.eb /\ (running => Base(s).h <= mem.h)
    /\ \A i \in sf[s].cp + 1..top_of_cpstack :
         Base(s).h <= saved[i].h /\ Base(s).eb <= saved[i].eb /\ Base(s).tr <= saved[i].tr

\* The generator of a table that does not lead will be a suspended call, and is frozen, by
\* what a newer leader will leave frozen too.
Frozen(s, hf, ef, trf) == Base(s).h <= hf /\ Base(s).eb <= ef /\ Base(s).tr <= trf
DependentIsFrozen ==
  \A s \in Subgoal : OpenTable(s) /\ ~Leads(s) =>
    /\ Frozen(s, mem.hf, mem.ef, mem.trf)
    /\ \A t \in Subgoal : OpenTable(t) /\ Leads(t) /\ sf[s].frame < sf[t].frame =>
         Frozen(s, Base(t).hf, Base(t).ef, Base(t).trf)

\* The freeze registers hf, ef and trf are what the choice points C need at most.
Freezes(hf, ef, trf, C) ==
  /\ \A c \in C : saved[c].h <= hf /\ saved[c].eb <= ef /\ saved[c].tr <= trf
  /\ hf = 1 \/ \E c \in C : hf = saved[c].h
  /\ ef = 0 \/ \E c \in C : ef = saved[c].eb
  /\ trf = BottomOfTrail \/ \E c \in C : trf = saved[c].tr
FreezeRegisters ==
  /\ Freezes(mem.hf, mem.ef, mem.trf, SuspendedCalls)
  /\ \A s \in Subgoal : Generating(s) =>
       Freezes(Base(s).hf, Base(s).ef, Base(s).trf, {c \in SuspendedCalls : c < sf[s].cp})

FreezeInv == TrailAboveGenerators /\ StacksAboveGenerators /\ DependentIsFrozen /\ FreezeRegisters

\* The inductive invariant of what the freeze registers keep, on the engine's own.
MemoryInv == EngineInv /\ MemoryTypeOK /\ FreezeInv
================================================================================
