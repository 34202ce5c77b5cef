---------------------------- MODULE DeploymentProofs ----------------------------
(***************************************************************************)
(* Proofs about Deployment, for any modules, requests and bounds: what     *)
(* compile_bases.pl leaves when it has come to its end, what make can      *)
(* overlook, what make clean followed by make repairs; then the types of   *)
(* its state, and that a request which comes when an update is finished is *)
(* answered by rules, stems and page of one segment list.                  *)
(***************************************************************************)
EXTENDS Deployment, TLAPS

--------------------------------------------------------------------------------
(* FinishedRunPairs.  While compile_bases.pl is between its two files, and *)
(* while it writes the second, the first is whole and cut by the list it   *)
(* parsed; a run that ended so has written the second from the same list,  *)
(* and only another run writes either file again.                          *)

Stems == src["stems"].text
Segments == src["segments"].text

GenShape == gen = [pc |-> gen.pc, seg |-> gen.seg]
StemsDone == gen.pc \in {"written", "segments"} => Stems.part = "whole" /\ Stems.seg = gen.seg
FinishedRests == finished => gen.pc \in {"idle", "parsed"}
PairInv ==
  /\ DOMAIN src = Module
  /\ GenShape
  /\ StemsDone
  /\ FinishedRests
  /\ FinishedRunPairs

\* A buffer goes to one file only.
LEMMA WriteOne ==
  ASSUME NEW m \in Module, NEW text, DOMAIN src = Module, Write(m, text)
  PROVE  /\ DOMAIN src' = Module
         /\ src'[m].text = text
         /\ \A k \in Module \ {m} : src'[k] = src[k]
BY DEF Write

LEMMA PairInit == Init => PairInv
BY DEF Init, PairInv, GenShape, StemsDone, FinishedRests, FinishedRunPairs, OldText,
       Stems, Segments, Module, Generated

\* A step that touches neither the generated files nor the generator.
LEMMA PairFrame ==
  ASSUME PairInv, DOMAIN src' = Module,
         src'["stems"] = src["stems"], src'["segments"] = src["segments"],
         UNCHANGED <<gen, finished>>
  PROVE  PairInv'
BY DEF PairInv, GenShape, StemsDone, FinishedRests, FinishedRunPairs, Stems, Segments

LEMMA PairGenerate == PairInv /\ Generate => PairInv'
<1> SUFFICES ASSUME PairInv, Generate PROVE PairInv'
  OBVIOUS
<1> USE DEF PairInv, GenShape, StemsDone, FinishedRests, FinishedRunPairs, Stems, Segments
<1>m. "stems" \in Module /\ "segments" \in Module /\ "stems" # "segments"
  BY DEF Module, Generated
<1>1. CASE GenParse
  BY <1>1 DEF GenParse
<1>2. CASE GenOpenStems
  <2>1. DOMAIN src' = Module
    BY <1>2, <1>m, WriteOne DEF GenOpenStems
  <2>2. gen' = [gen EXCEPT !.pc = "stems"] /\ finished' = FALSE
    BY <1>2 DEF GenOpenStems, GenGoes
  <2> QED  BY <2>1, <2>2
<1>3. CASE GenFlush
  <2>1. DOMAIN src' = Module
    BY <1>3, <1>m, WriteOne DEF GenFlush
  <2>2. gen.pc = "stems" /\ gen' = [gen EXCEPT !.pc = "stems"] /\ finished' = finished
    BY <1>3 DEF GenFlush, GenGoes
  <2> QED  BY <2>1, <2>2
<1>4. CASE GenCloseStems
  <2>1. DOMAIN src' = Module /\ src'["stems"].text = StemsText("whole")
    BY <1>4, <1>m, WriteOne DEF GenCloseStems
  <2>2. gen.pc = "stems" /\ gen' = [gen EXCEPT !.pc = "written"] /\ finished' = finished
    BY <1>4 DEF GenCloseStems, GenGoes
  <2> QED  BY <2>1, <2>2 DEF StemsText
<1>5. CASE GenDie
  <2>1. DOMAIN src' = Module
    BY <1>5, <1>m, WriteOne DEF GenDie
  <2>2. gen.pc = "stems" /\ gen' = [gen EXCEPT !.pc = "idle"] /\ finished' = finished
    BY <1>5 DEF GenDie, GenGoes
  <2> QED  BY <2>1, <2>2
<1>6. CASE GenOpenSegments
  <2>1. DOMAIN src' = Module /\ src'["stems"] = src["stems"]
    BY <1>6, <1>m, WriteOne DEF GenOpenSegments
  <2>2. gen.pc = "written" /\ gen' = [gen EXCEPT !.pc = "segments"] /\ finished' = finished
    BY <1>6 DEF GenOpenSegments, GenGoes
  <2> QED  BY <2>1, <2>2
<1>7. CASE GenCloseSegments
  <2>1. /\ DOMAIN src' = Module /\ src'["stems"] = src["stems"]
        /\ src'["segments"].text = SegmentsText("whole")
    BY <1>7, <1>m, WriteOne DEF GenCloseSegments
  <2>2. gen.pc = "segments" /\ gen' = [gen EXCEPT !.pc = "idle"]
    BY <1>7 DEF GenCloseSegments, GenGoes
  <2> QED  BY <2>1, <2>2 DEF SegmentsText
<1>8. CASE GenKilled
  BY <1>8 DEF GenKilled
<1> QED  BY <1>1, <1>2, <1>3, <1>4, <1>5, <1>6, <1>7, <1>8 DEF Generate

LEMMA PairStep == PairInv /\ [Next]_vars => PairInv'
<1> SUFFICES ASSUME PairInv, [Next]_vars PROVE PairInv'
  OBVIOUS
<1>d. DOMAIN src = Module  BY DEF PairInv
<1>1. CASE EditModule
  <2>1. PICK m \in Handwritten : src' = [src EXCEPT ![m] =
          [text |-> [src[m].text EXCEPT !.ver = @ + 1], mtime |-> now]]
    BY <1>1 DEF EditModule
  <2>2. m # "stems" /\ m # "segments"
    BY DeploymentAssumption DEF Generated
  <2>3. UNCHANGED <<gen, finished>>
    BY <1>1 DEF EditModule
  <2> QED  BY <1>d, <2>1, <2>2, <2>3, PairFrame
<1>2. CASE Generate
  BY <1>2, PairGenerate
<1>3. CASE UNCHANGED <<src, gen, finished>>
  BY <1>d, <1>3, PairFrame
<1>4. ASSUME NEW p \in Compiler, Compile(p) PROVE UNCHANGED <<src, gen, finished>>
  BY <1>4 DEF Compile, SyntaxError, OpenObject, CloseObject, CompilerKilled
<1>5. ASSUME NEW r \in Requests, Serve(r) PROVE UNCHANGED <<src, gen, finished>>
  BY <1>5 DEF Serve, RequestStart, LoadObject, LoadUnwritten, LoadCompiles, LoadAgain, LoadFails, Answer, RequestEnd
<1>6. CASE Tick \/ EditXml \/ Make \/ UNCHANGED vars
  <2>1. UNCHANGED <<src, gen, finished>>
    BY <1>6 DEF Tick, EditXml, Make, Clean, MakeStart, MakeCompile, MakeSkip, vars
  <2> QED  BY <2>1, <1>3
<1> QED  BY <1>1, <1>2, <1>3, <1>4, <1>5, <1>6 DEF Next

\* A run of compile_bases.pl that came to its end leaves stems cut by the list
\* in segments.P, for any number of modules, requests, edits and kills.
THEOREM FinishedRunAlwaysPairs == Spec => []FinishedRunPairs
<1>1. PairInv => FinishedRunPairs  BY DEF PairInv
<1> QED  BY PairInit, PairStep, <1>1, PTL DEF Spec

--------------------------------------------------------------------------------
(* MakeOverlooksOnlyOverlaps.  What a compiler has read of a source, and   *)
(* what it then puts in the object file, is still the source's text, or    *)
(* the source was written at the time of reading or later.  A write sets   *)
(* the source's time to the clock, which no time of reading exceeds.       *)

UpToDate(text, readAt, m) == text = src[m].text \/ readAt <= src[m].mtime

CompShape(c) ==
  \/ c = NoCompilation
  \/ /\ c = [stage |-> c.stage, mod |-> c.mod, text |-> c.text, readAt |-> c.readAt]
     /\ c.stage \in {"read", "open"}
     /\ c.readAt \in Nat /\ c.readAt <= now
     /\ c.mod \in Module => UpToDate(c.text, c.readAt, c.mod)
ObjShape(m) ==
  \/ obj[m] = NoFile
  \/ /\ {"written", "open", "mixed", "mtime"} \subseteq DOMAIN obj[m]
     /\ obj[m].readAt \in Nat /\ obj[m].readAt <= now
     /\ UpToDate(obj[m].text, obj[m].readAt, m)
     /\ ~ obj[m].written /\ obj[m].open = {} => kills > 0 \/ obj[m].mixed

OverlookInv ==
  /\ now \in Nat /\ kills \in Nat
  /\ DOMAIN src = Module /\ DOMAIN obj = Module /\ DOMAIN comp = Compiler
  /\ \A m \in Module : src[m].mtime \in Nat
  /\ \A p \in Compiler : CompShape(comp[p])
  /\ \A m \in Module : ObjShape(m)

LEMMA OverlookInit == Init => OverlookInv
<1> SUFFICES ASSUME Init PROVE OverlookInv
  OBVIOUS
<1>1. \A m \in Module : src[m] = [text |-> OldText, mtime |-> 0]
  BY DEF Init
<1>2. ASSUME NEW m \in Module PROVE ObjShape(m)
  <2>1. obj[m] = [exists |-> TRUE, written |-> TRUE, open |-> {}, mixed |-> FALSE,
                  text |-> OldText, readAt |-> 0, mtime |-> 0]
    BY DEF Init
  <2> QED  BY <1>1, <2>1 DEF ObjShape, UpToDate, Init
<1>3. \A p \in Compiler : CompShape(comp[p])
  BY DEF Init, CompShape
<1> QED  BY <1>1, <1>2, <1>3 DEF Init, OverlookInv

LEMMA OverlookEnough == OverlookInv => MakeOverlooksOnlyOverlaps
BY DEF OverlookInv, ObjShape, UpToDate, MakeOverlooksOnlyOverlaps, NoFile

\* The clock, and the sources: each is as it was or has the time of the clock.
LEMMA OverlookWrite ==
  ASSUME OverlookInv,
         now' \in Nat, now' >= now, kills' \in Nat, kills' >= kills,
         DOMAIN src' = Module,
         \A m \in Module : src'[m] = src[m] \/ src'[m].mtime = now,
         UNCHANGED <<obj, comp>>
  PROVE  OverlookInv'
<1>1. ASSUME NEW m \in Module, NEW text, NEW t \in Nat, t <= now, UpToDate(text, t, m)
      PROVE  UpToDate(text, t, m)'
  BY <1>1 DEF OverlookInv, UpToDate
<1>2. ASSUME NEW p \in Compiler PROVE CompShape(comp[p])'
  <2>1. CompShape(comp[p])
    BY DEF OverlookInv
  <2> QED  BY <2>1, <1>1 DEF CompShape, OverlookInv
<1>3. ASSUME NEW m \in Module PROVE ObjShape(m)'
  <2>1. ObjShape(m)
    BY DEF OverlookInv
  <2> QED  BY <2>1, <1>1 DEF ObjShape, OverlookInv
<1> QED  BY <1>2, <1>3 DEF OverlookInv

\* The sources and the clock stand; compilations and object files keep to what
\* they have to.
LEMMA OverlookCompile ==
  ASSUME OverlookInv, UNCHANGED <<now, src>>, kills' \in Nat, kills' >= kills,
         DOMAIN obj' = Module, DOMAIN comp' = Compiler,
         \A p \in Compiler : comp'[p] = comp[p] \/ CompShape(comp[p])',
         \A m \in Module : obj'[m] = obj[m] \/ ObjShape(m)'
  PROVE  OverlookInv'
<1>1. ASSUME NEW m, NEW text, NEW t PROVE UpToDate(text, t, m)' <=> UpToDate(text, t, m)
  BY DEF UpToDate
<1>2. ASSUME NEW p \in Compiler PROVE CompShape(comp[p])'
  <2>1. CompShape(comp[p])
    BY DEF OverlookInv
  <2>2. CASE comp'[p] = comp[p]
    BY <2>1, <2>2, <1>1 DEF CompShape
  <2> QED  BY <2>2
<1>3. ASSUME NEW m \in Module PROVE ObjShape(m)'
  <2>1. ObjShape(m)
    BY DEF OverlookInv
  <2>2. CASE obj'[m] = obj[m]
    BY <2>1, <2>2, <1>1 DEF ObjShape, OverlookInv
  <2> QED  BY <2>2
<1> QED  BY <1>2, <1>3 DEF OverlookInv

LEMMA OverlookStart ==
  ASSUME OverlookInv, NEW p \in Compiler, NEW m, StartCompile(p, m),
         UNCHANGED <<now, src, obj, kills>>
  PROVE  OverlookInv'
<1>1. comp' = [comp EXCEPT ![p] = [stage |-> "read", mod |-> m, text |-> src[m].text, readAt |-> now]]
  BY DEF StartCompile
<1>2. CompShape(comp[p])'
  BY <1>1 DEF CompShape, UpToDate, OverlookInv
<1> QED  BY <1>1, <1>2, OverlookCompile DEF OverlookInv

LEMMA OverlookEnd ==
  ASSUME OverlookInv, NEW p \in Compiler, EndCompile(p), UNCHANGED <<now, src>>,
         kills' \in Nat, kills' >= kills, DOMAIN obj' = Module,
         \A m \in Module : obj'[m] = obj[m] \/ ObjShape(m)'
  PROVE  OverlookInv'
<1>1. comp' = [comp EXCEPT ![p] = NoCompilation]
  BY DEF EndCompile
<1>2. CompShape(comp[p])'
  BY <1>1 DEF CompShape, OverlookInv
<1> QED  BY <1>1, <1>2, OverlookCompile DEF OverlookInv

LEMMA OverlookCompiler ==
  ASSUME OverlookInv, NEW p \in Compiler, Compile(p)
  PROVE  OverlookInv'
<1>d. DOMAIN obj = Module /\ DOMAIN comp = Compiler /\ kills \in Nat
  BY DEF OverlookInv
<1>c. CompShape(comp[p])
  BY DEF OverlookInv
<1>o. \A m \in Module : ObjShape(m)
  BY DEF OverlookInv
<1>m. PICK m : m = comp[p].mod
  OBVIOUS
<1>1. CASE SyntaxError(p)
  BY <1>1, <1>d, OverlookEnd DEF SyntaxError
<1>2. CASE OpenObject(p)
  <2>1. comp[p].stage = "read" /\ comp' = [comp EXCEPT ![p].stage = "open"]
        /\ UNCHANGED <<now, src, kills>>
    BY <1>2 DEF OpenObject
  <2>2. obj' = [obj EXCEPT ![m] =
           [exists |-> TRUE, written |-> FALSE, open |-> obj[m].open \cup {p},
            mixed |-> \E q \in obj[m].open : obj[m].mixed \/ comp[q].text # comp[p].text,
            text |-> comp[p].text, readAt |-> comp[p].readAt, mtime |-> now]]
    BY <1>2, <1>m DEF OpenObject
  <2>3. comp[p] # NoCompilation
    BY <2>1 DEF NoCompilation
  <2>4. CompShape(comp[p])'
    <3>1. comp'[p] = [stage |-> "open", mod |-> comp[p].mod, text |-> comp[p].text,
                      readAt |-> comp[p].readAt]
      BY <1>c, <1>d, <2>1, <2>3 DEF CompShape
    <3> QED  BY <1>c, <2>1, <2>3, <3>1 DEF CompShape, UpToDate
  <2>5. CASE m \in Module
    <3>1. ObjShape(m)'
      BY <1>c, <1>d, <1>m, <2>1, <2>2, <2>3, <2>5 DEF CompShape, ObjShape, UpToDate
    <3>2. \A k \in Module : obj'[k] = obj[k] \/ ObjShape(k)'
      BY <1>d, <2>2, <3>1
    <3> QED  BY <1>d, <2>1, <2>2, <2>4, <3>2, OverlookCompile
  <2>6. CASE m \notin Module
    BY <1>d, <2>1, <2>2, <2>4, <2>6, OverlookCompile
  <2> QED  BY <2>5, <2>6
<1>3. CASE CloseObject(p)
  <2>1. EndCompile(p) /\ UNCHANGED <<now, src, kills>>
    BY <1>3 DEF CloseObject
  <2>2. CASE p \in obj[m].open
    <3>1. PICK w \in BOOLEAN : w = (obj[m].open \ {p} = {} /\ ~ obj[m].mixed)
      OBVIOUS
    <3>2. obj' = [obj EXCEPT ![m].open = obj[m].open \ {p}, ![m].mtime = now, ![m].written = w]
      BY <1>3, <1>m, <2>2, <3>1 DEF CloseObject
    <3>3. ASSUME m \in Module PROVE ObjShape(m)'
      <4>1. ObjShape(m) /\ obj[m] # NoFile
        BY <1>o, <2>2, <3>3 DEF NoFile
      <4>2. obj'[m] = [obj[m] EXCEPT !.open = obj[m].open \ {p}, !.mtime = now, !.written = w]
        BY <1>d, <3>2, <3>3
      <4>3. /\ {"written", "open", "mixed", "mtime"} \subseteq DOMAIN obj'[m]
            /\ obj'[m].written = w /\ obj'[m].open = obj[m].open \ {p}
            /\ obj'[m].mixed = obj[m].mixed
            /\ obj'[m].text = obj[m].text /\ obj'[m].readAt = obj[m].readAt
        BY <4>1, <4>2 DEF ObjShape
      <4>4. obj[m].open \ {p} = {} /\ ~ w => obj[m].mixed
        BY <3>1
      <4> QED  BY <2>1, <4>1, <4>3, <4>4 DEF ObjShape, UpToDate
    <3>4. DOMAIN obj' = Module /\ \A k \in Module : obj'[k] = obj[k] \/ ObjShape(k)'
      BY <1>d, <3>2, <3>3
    <3> QED  BY <1>d, <2>1, <3>4, OverlookEnd
  <2>3. CASE p \notin obj[m].open
    <3>1. UNCHANGED obj
      BY <1>3, <1>m, <2>3 DEF CloseObject
    <3> QED  BY <1>d, <2>1, <3>1, OverlookEnd
  <2> QED  BY <2>2, <2>3
<1>4. CASE CompilerKilled(p)
  <2>1. EndCompile(p) /\ kills' = kills + 1 /\ UNCHANGED <<now, src>>
    BY <1>4 DEF CompilerKilled
  <2>2. PICK damage \in BOOLEAN :
          obj' = IF p \in obj[m].open
                   THEN [obj EXCEPT ![m].open = @ \ {p}, ![m].mixed = @ \/ damage] ELSE obj
    BY <1>4, <1>m DEF CompilerKilled
  <2>3. CASE p \in obj[m].open
    <3>1. PICK x : x = (obj[m].mixed \/ damage)
      OBVIOUS
    <3>2. obj' = [obj EXCEPT ![m].open = obj[m].open \ {p}, ![m].mixed = x]
      BY <2>2, <2>3, <3>1
    <3>3. ASSUME m \in Module PROVE ObjShape(m)'
      <4>1. ObjShape(m) /\ obj[m] # NoFile
        BY <1>o, <2>3, <3>3 DEF NoFile
      <4>2. obj'[m] = [obj[m] EXCEPT !.open = obj[m].open \ {p}, !.mixed = x]
        BY <1>d, <3>2, <3>3
      <4>3. /\ {"written", "open", "mixed", "mtime"} \subseteq DOMAIN obj'[m]
            /\ obj'[m].text = obj[m].text /\ obj'[m].readAt = obj[m].readAt
        BY <4>1, <4>2 DEF ObjShape
      <4>4. kills' > 0
        BY <1>d, <2>1
      <4> QED  BY <2>1, <4>1, <4>3, <4>4 DEF ObjShape, UpToDate
    <3>4. DOMAIN obj' = Module /\ \A k \in Module : obj'[k] = obj[k] \/ ObjShape(k)'
      BY <1>d, <3>2, <3>3
    <3> QED  BY <1>d, <2>1, <3>4, OverlookEnd
  <2>4. CASE p \notin obj[m].open
    BY <1>d, <2>1, <2>2, <2>4, OverlookEnd
  <2> QED  BY <2>3, <2>4
<1> QED  BY <1>1, <1>2, <1>3, <1>4 DEF Compile

LEMMA OverlookGenerate == OverlookInv /\ Generate => OverlookInv'
<1> SUFFICES ASSUME OverlookInv, Generate PROVE OverlookInv'
  OBVIOUS
<1>d. DOMAIN src = Module /\ now \in Nat /\ kills \in Nat
  BY DEF OverlookInv
<1>1. ASSUME NEW m \in Module, NEW text, Write(m, text), UNCHANGED <<now, kills, obj, comp>>
      PROVE  OverlookInv'
  <2>1. DOMAIN src' = Module /\ \A k \in Module : src'[k] = src[k] \/ src'[k].mtime = now
    BY <1>d, <1>1 DEF Write
  <2> QED  BY <1>d, <1>1, <2>1, OverlookWrite
<1>2. ASSUME UNCHANGED <<src, now, obj, comp>>, kills' \in Nat, kills' >= kills PROVE OverlookInv'
  BY <1>d, <1>2, OverlookWrite
<1>m. "stems" \in Module /\ "segments" \in Module
  BY DEF Module, Generated
<1>3. CASE GenParse
  BY <1>3, <1>d, <1>2 DEF GenParse
<1>4. CASE GenOpenStems
  BY <1>4, <1>1, <1>m DEF GenOpenStems, GenGoes
<1>5. CASE GenFlush
  BY <1>5, <1>1, <1>m DEF GenFlush, GenGoes
<1>6. CASE GenCloseStems
  BY <1>6, <1>1, <1>m DEF GenCloseStems, GenGoes
<1>7. CASE GenDie
  <2>1. UNCHANGED <<now, kills, obj, comp>>
    BY <1>7 DEF GenDie, GenGoes
  <2>2. CASE UNCHANGED src
    BY <1>d, <1>2, <2>1, <2>2
  <2>3. CASE Write("stems", StemsText("cut"))
    BY <1>1, <1>m, <2>1, <2>3
  <2> QED  BY <1>7, <2>2, <2>3 DEF GenDie
<1>8. CASE GenOpenSegments
  BY <1>8, <1>1, <1>m DEF GenOpenSegments, GenGoes
<1>9. CASE GenCloseSegments
  BY <1>9, <1>1, <1>m DEF GenCloseSegments, GenGoes
<1>10. CASE GenKilled
  BY <1>10, <1>d, <1>2 DEF GenKilled
<1> QED  BY <1>3, <1>4, <1>5, <1>6, <1>7, <1>8, <1>9, <1>10 DEF Generate

LEMMA OverlookMake == OverlookInv /\ Make => OverlookInv'
<1> SUFFICES ASSUME OverlookInv, Make PROVE OverlookInv'
  OBVIOUS
<1>d. DOMAIN obj = Module /\ DOMAIN comp = Compiler /\ DOMAIN src = Module
      /\ now \in Nat /\ kills \in Nat
  BY DEF OverlookInv
<1>1. CASE Clean
  <2>1. obj' = [k \in Module |-> NoFile] /\ UNCHANGED <<now, src, comp, kills>>
    BY <1>1 DEF Clean
  <2>2. \A k \in Module : ObjShape(k)'
    BY <2>1 DEF ObjShape
  <2> QED  BY <1>d, <2>1, <2>2, OverlookCompile
<1>2. CASE MakeCompile
  BY <1>2, OverlookStart DEF MakeCompile, Compiler
<1>3. CASE MakeStart \/ MakeSkip
  <2>1. UNCHANGED <<now, kills, src, obj, comp>>
    BY <1>3 DEF MakeStart, MakeSkip
  <2> QED  BY <1>d, <2>1, OverlookWrite
<1> QED  BY <1>1, <1>2, <1>3 DEF Make

LEMMA OverlookStep == OverlookInv /\ [Next]_vars => OverlookInv'
<1> SUFFICES ASSUME OverlookInv, [Next]_vars PROVE OverlookInv'
  OBVIOUS
<1>d. DOMAIN src = Module /\ now \in Nat /\ kills \in Nat
  BY DEF OverlookInv
<1>0. ASSUME UNCHANGED <<now, kills, src, obj, comp>> PROVE OverlookInv'
  BY <1>0, <1>d, OverlookWrite
<1>1. CASE Tick
  BY <1>1, <1>d, OverlookWrite DEF Tick
<1>2. CASE EditXml
  BY <1>2, <1>0 DEF EditXml
<1>3. CASE EditModule
  <2>1. PICK m \in Handwritten : src' = [src EXCEPT ![m] =
          [text |-> [src[m].text EXCEPT !.ver = @ + 1], mtime |-> now]]
    BY <1>3 DEF EditModule
  <2>2. UNCHANGED <<now, kills, obj, comp>>
    BY <1>3 DEF EditModule
  <2> QED  BY <1>d, <2>1, <2>2, OverlookWrite
<1>4. CASE Generate
  BY <1>4, OverlookGenerate
<1>5. CASE Make
  BY <1>5, OverlookMake
<1>6. ASSUME NEW p \in Compiler, Compile(p) PROVE OverlookInv'
  BY <1>6, OverlookCompiler
<1>7. ASSUME NEW r \in Requests, Serve(r) PROVE OverlookInv'
  <2>1. CASE LoadCompiles(r)
    BY <2>1, OverlookStart DEF LoadCompiles, Compiler
  <2>2. CASE RequestStart(r) \/ LoadObject(r) \/ LoadUnwritten(r) \/ LoadAgain(r) \/ LoadFails(r)
             \/ Answer(r) \/ RequestEnd(r)
    <3>1. UNCHANGED <<now, kills, src, obj, comp>>
      BY <2>2 DEF RequestStart, LoadObject, LoadUnwritten, LoadAgain, LoadFails, Answer, RequestEnd
    <3> QED  BY <3>1, <1>0
  <2> QED  BY <1>7, <2>1, <2>2 DEF Serve
<1>8. CASE UNCHANGED vars
  BY <1>8, <1>0 DEF vars
<1> QED  BY <1>1, <1>2, <1>3, <1>4, <1>5, <1>6, <1>7, <1>8 DEF Next

\* Whatever is edited, generated, compiled, killed and requested at once, make
\* overlooks a module only for a source written in the second it was read or
\* later, or for a file whose writing was cut short or done by two.
THEOREM MakeAlwaysOverlooksOnlyOverlaps == Spec => []MakeOverlooksOnlyOverlaps
BY OverlookInit, OverlookStep, OverlookEnough, PTL DEF Spec

--------------------------------------------------------------------------------
(* CleanMakeRepairs.  From a make clean that no compiler outlives until a  *)
(* source is written or a compiler killed, whatever is compiled is of the  *)
(* source as it stands, and what make has been through has an object file, *)
(* but for cut sources.  Two compilers of one module write the same.       *)

Shaped(p) ==
  \/ comp[p] = NoCompilation
  \/ /\ comp[p] = [stage |-> comp[p].stage, mod |-> comp[p].mod, text |-> comp[p].text,
                   readAt |-> comp[p].readAt]
     /\ comp[p].stage \in {"read", "open"}

\* What make compiles is the module it looks at.
InTurn ==
  /\ mk \in 0..Len(OBJ)
  /\ comp["make"] # NoCompilation => mk > 0 /\ comp["make"].mod = OBJ[mk]

Fits(p) ==
  comp[p] # NoCompilation /\ comp[p].mod \in Module =>
    /\ comp[p].text = src[comp[p].mod].text
    /\ comp[p].stage = "open" => p \in obj[comp[p].mod].open
Sound(m) ==
  \/ obj[m] = NoFile
  \/ /\ {"exists", "written", "open", "mixed", "mtime", "text"} \subseteq DOMAIN obj[m]
     /\ obj[m].exists /\ ~ obj[m].mixed /\ obj[m].text = src[m].text
     /\ obj[m].open = {} => obj[m].written
     /\ \A p \in obj[m].open : /\ p \in Compiler /\ comp[p] # NoCompilation
                               /\ comp[p].mod = m /\ comp[p].stage = "open"
Uncut(i) == src[OBJ[i]].text.part # "cut"
Covered == \A i \in DOMAIN OBJ : (remade = "made" \/ i < mk) /\ Uncut(i) => obj[OBJ[i]].exists

Repaired ==
  /\ \A p \in Compiler : Fits(p)
  /\ \A m \in Module : Sound(m)
  /\ Covered
RepairInv ==
  /\ DOMAIN obj = Module /\ DOMAIN comp = Compiler
  /\ \A p \in Compiler : Shaped(p)
  /\ InTurn
  /\ remade # "no" => Repaired
  /\ remade \in {"no", "clean", "made"}

LEMMA OnlyModules == \A i \in DOMAIN OBJ : OBJ[i] \in Module
<1>1. OBJ \in Seq(Module)
  BY DeploymentAssumption
<1> QED  BY <1>1

LEMMA RepairInit == Init => RepairInv
BY DeploymentAssumption DEF Init, RepairInv, Shaped, InTurn, Compiler, NoCompilation

LEMMA RepairEnough == RepairInv => CleanMakeRepairs
<1> SUFFICES ASSUME RepairInv, remade = "made", NEW m \in Module,
                    src[m].text.part # "cut", obj[m].open = {}
             PROVE  obj[m].written /\ obj[m].text = src[m].text
  BY DEF CleanMakeRepairs
<1>1. PICK i \in DOMAIN OBJ : OBJ[i] = m
  BY DeploymentAssumption
<1>2. obj[m].exists
  BY <1>1 DEF RepairInv, Repaired, Covered, Uncut
<1>3. Sound(m)
  BY DEF RepairInv, Repaired
<1> QED  BY <1>2, <1>3 DEF Sound, NoFile

\* Nothing of this is touched, but that a source may have been written.
LEMMA RepairFrame ==
  ASSUME RepairInv, UNCHANGED <<obj, comp, mk>>,
         remade' = "no" \/ UNCHANGED <<src, remade>>
  PROVE  RepairInv'
<1>1. \A p \in Compiler : Shaped(p)'
  BY DEF RepairInv, Shaped
<1>2. InTurn'
  BY DEF RepairInv, InTurn
<1>3. CASE remade' = "no"
  BY <1>1, <1>2, <1>3 DEF RepairInv
<1>4. CASE UNCHANGED <<src, remade>>
  BY <1>1, <1>2, <1>4 DEF RepairInv, Repaired, Fits, Sound, Covered, Uncut
<1> QED  BY <1>3, <1>4

LEMMA ResumeTurn ==
  ASSUME InTurn, DOMAIN comp = Compiler, NEW p \in Compiler, comp[p] # NoCompilation,
         EndCompile(p), NEW failed, Resume(p, failed)
  PROVE  InTurn'
<1>1. comp' = [comp EXCEPT ![p] = NoCompilation]
  BY DEF EndCompile
<1>2. CASE p = "make"
  <2>1. mk' = IF mk = Len(OBJ) THEN 0 ELSE mk + 1
    BY <1>2 DEF Resume
  <2>2. Len(OBJ) \in Nat
    BY DeploymentAssumption
  <2> QED  BY <1>1, <1>2, <2>1, <2>2 DEF InTurn
<1>3. CASE p # "make"
  BY <1>1, <1>3 DEF InTurn, Resume
<1> QED  BY <1>2, <1>3

\* Make goes on to the next module, or to its end, or another process ends.
LEMMA ResumeCovered ==
  ASSUME InTurn, Covered, remade # "no", NEW p, NEW failed, Resume(p, failed),
         remade' = Remade(p), UNCHANGED src,
         \A i \in DOMAIN OBJ : obj[OBJ[i]].exists => obj'[OBJ[i]].exists,
         p = "make" => mk > 0 /\ (Uncut(mk) => obj'[OBJ[mk]].exists)
  PROVE  Covered'
<1> SUFFICES ASSUME NEW i \in DOMAIN OBJ, remade' = "made" \/ i < mk', Uncut(i)'
             PROVE  obj'[OBJ[i]].exists
  BY DEF Covered
<1>1. Uncut(i)
  BY DEF Uncut
<1>2. Len(OBJ) \in Nat /\ i \in 1..Len(OBJ)
  BY DeploymentAssumption
<1>3. CASE p = "make"
  <2>1. mk' = IF mk = Len(OBJ) THEN 0 ELSE mk + 1
    BY <1>3 DEF Resume
  <2>2. CASE i = mk
    BY <1>1, <1>3, <2>2
  <2>3. CASE remade = "made" \/ i < mk
    BY <1>1, <2>3 DEF Covered
  <2>4. CASE i > mk /\ remade # "made"
    <3>1. ~ i < mk'
      BY <1>2, <2>1, <2>4 DEF InTurn
    <3>2. remade' # "made"
      BY <1>2, <2>4 DEF Remade
    <3> QED  BY <3>1, <3>2
  <2> QED  BY <1>2, <2>2, <2>3, <2>4 DEF InTurn
<1>4. CASE p # "make"
  BY <1>1, <1>4 DEF Covered, Resume, Remade
<1> QED  BY <1>3, <1>4

\* A process begins to compile: it reads the source as it stands.
LEMMA RepairStart ==
  ASSUME RepairInv, NEW p \in Compiler, NEW m, StartCompile(p, m), comp[p] = NoCompilation,
         p = "make" => mk > 0 /\ m = OBJ[mk],
         UNCHANGED <<src, obj, mk, remade>>
  PROVE  RepairInv'
<1>1. comp' = [comp EXCEPT ![p] = [stage |-> "read", mod |-> m, text |-> src[m].text, readAt |-> now]]
  BY DEF StartCompile
<1>2. DOMAIN obj' = Module /\ DOMAIN comp' = Compiler
  BY <1>1 DEF RepairInv
<1>3. \A q \in Compiler : Shaped(q)'
  BY <1>1 DEF RepairInv, Shaped
<1>4. InTurn'
  BY <1>1 DEF RepairInv, InTurn
<1>5. ASSUME remade # "no" PROVE Repaired'
  <2>1. \A q \in Compiler : Fits(q)'
    BY <1>1, <1>5 DEF RepairInv, Repaired, Fits
  <2>2. ASSUME NEW k \in Module PROVE Sound(k)'
    <3>1. Sound(k)
      BY <1>5 DEF RepairInv, Repaired
    <3>2. \A q \in obj[k].open : q # p \/ obj[k] = NoFile
      BY <3>1 DEF Sound
    <3> QED  BY <1>1, <3>1, <3>2 DEF Sound, RepairInv
  <2>3. Covered'
    BY <1>5 DEF RepairInv, Repaired, Covered, Uncut
  <2> QED  BY <2>1, <2>2, <2>3 DEF Repaired
<1> QED  BY <1>2, <1>3, <1>4, <1>5 DEF RepairInv

LEMMA RepairCompiler == ASSUME RepairInv, NEW p \in Compiler, Compile(p) PROVE RepairInv'
<1>d. DOMAIN obj = Module /\ DOMAIN comp = Compiler /\ InTurn
  BY DEF RepairInv
<1>s. \A q \in Compiler : Shaped(q)
  BY DEF RepairInv
<1>m. PICK m : m = comp[p].mod
  OBVIOUS
<1>c. comp[p] # NoCompilation
  <2>1. comp[p].stage # "none"
    BY DEF Compile, SyntaxError, OpenObject, CloseObject, CompilerKilled
  <2> QED  BY <2>1 DEF NoCompilation
<1>e. ASSUME EndCompile(p) PROVE /\ comp' = [comp EXCEPT ![p] = NoCompilation]
                                 /\ \A q \in Compiler : Shaped(q)'
  <2>1. comp' = [comp EXCEPT ![p] = NoCompilation]
    BY <1>e DEF EndCompile
  <2> QED  BY <1>d, <1>s, <2>1 DEF Shaped
<1>t. p = "make" => mk > 0 /\ m = OBJ[mk]
  BY <1>c, <1>d, <1>m DEF InTurn
<1>o. p = "make" => m \in Module
  BY <1>d, <1>t, DeploymentAssumption DEF InTurn
<1>1. CASE SyntaxError(p)
  <2>1. EndCompile(p) /\ Resume(p, TRUE) /\ remade' = Remade(p) /\ UNCHANGED <<src, obj>>
        /\ comp[p].text.part = "cut" /\ comp[p].stage = "read"
    BY <1>1 DEF SyntaxError
  <2>2. InTurn'
    BY <1>c, <1>d, <2>1, ResumeTurn
  <2>3. ASSUME remade' # "no" PROVE Repaired'
    <3>1. remade # "no"
      BY <2>1, <2>3 DEF Remade
    <3>2. Repaired
      BY <3>1 DEF RepairInv
    <3>3. p = "make" => ~ Uncut(mk)
      BY <1>c, <1>m, <1>o, <1>t, <2>1, <3>2 DEF Repaired, Fits, Uncut
    <3>4. Covered'
      BY <1>d, <1>t, <2>1, <3>1, <3>2, <3>3, ResumeCovered DEF Repaired
    <3>5. \A q \in Compiler : Fits(q)'
      BY <1>e, <1>d, <2>1, <3>2 DEF Repaired, Fits
    <3>6. ASSUME NEW k \in Module PROVE Sound(k)'
      <4>1. Sound(k)
        BY <3>2 DEF Repaired
      <4>2. obj[k] = NoFile \/ p \notin obj[k].open
        BY <1>c, <1>m, <2>1, <3>2, <4>1 DEF Sound, Repaired, Fits
      <4> QED  BY <1>d, <1>e, <2>1, <4>1, <4>2 DEF Sound
    <3> QED  BY <3>4, <3>5, <3>6 DEF Repaired
  <2> QED  BY <1>d, <1>e, <2>1, <2>2, <2>3 DEF RepairInv, Remade
<1>2. CASE OpenObject(p)
  <2>1. comp[p].stage = "read" /\ comp' = [comp EXCEPT ![p].stage = "open"]
        /\ UNCHANGED <<src, mk, remade>>
    BY <1>2 DEF OpenObject
  <2>2. PICK x : x = (\E q \in obj[m].open : obj[m].mixed \/ comp[q].text # comp[p].text)
    OBVIOUS
  <2>3. obj' = [obj EXCEPT ![m] =
           [exists |-> TRUE, written |-> FALSE, open |-> obj[m].open \cup {p}, mixed |-> x,
            text |-> comp[p].text, readAt |-> comp[p].readAt, mtime |-> now]]
    BY <1>2, <1>m, <2>2 DEF OpenObject
  <2>4. comp'[p] = [stage |-> "open", mod |-> comp[p].mod, text |-> comp[p].text,
                    readAt |-> comp[p].readAt]
    BY <1>c, <1>d, <1>s, <2>1 DEF Shaped
  <2>5. \A q \in Compiler : q # p => comp'[q] = comp[q]
    BY <1>d, <2>1
  <2>6. DOMAIN obj' = Module /\ DOMAIN comp' = Compiler
    BY <1>d, <2>1, <2>3
  <2>7. \A q \in Compiler : Shaped(q)'
    BY <1>s, <2>4, <2>5 DEF Shaped
  <2>8. InTurn'
    <3>1. CASE p = "make"
      BY <1>d, <1>m, <1>t, <2>1, <2>4, <3>1 DEF InTurn
    <3>2. CASE p # "make"
      <4>1. comp'["make"] = comp["make"]
        BY <2>5, <3>2 DEF Compiler
      <4> QED  BY <1>d, <2>1, <4>1 DEF InTurn
    <3> QED  BY <3>1, <3>2
  <2>9. ASSUME remade # "no" PROVE Repaired'
    <3>1. Repaired
      BY <2>9 DEF RepairInv
    <3>2. comp'[p] # NoCompilation
      BY <2>4 DEF NoCompilation
    <3>3. m \in Module => comp[p].text = src[m].text
      BY <1>c, <1>m, <3>1 DEF Repaired, Fits
    <3>4. ASSUME NEW k \in Module PROVE Sound(k)'
      <4>1. Sound(k)
        BY <3>1 DEF Repaired
      <4>2. CASE k # m
        <5>1. obj'[k] = obj[k]
          BY <1>d, <2>3, <4>2
        <5>2. obj[k] = NoFile \/ p \notin obj[k].open
          BY <1>m, <4>1, <4>2 DEF Sound
        <5> QED  BY <2>1, <2>5, <4>1, <5>1, <5>2 DEF Sound
      <4>3. CASE k = m
        <5>1. \A q \in obj[k].open : /\ q \in Compiler /\ comp[q] # NoCompilation
                                     /\ comp[q].mod = k /\ comp[q].stage = "open"
          BY <4>1 DEF Sound, NoFile
        <5>2. ~ \E q \in obj[k].open : obj[k].mixed \/ comp[q].text # comp[p].text
          <6> SUFFICES ASSUME NEW q \in obj[k].open PROVE ~ obj[k].mixed /\ comp[q].text = comp[p].text
            OBVIOUS
          <6>1. obj[k] # NoFile
            BY DEF NoFile
          <6>2. comp[q].text = src[k].text
            BY <3>1, <5>1 DEF Repaired, Fits
          <6> QED  BY <3>3, <4>1, <4>3, <6>1, <6>2 DEF Sound
        <5>3. obj'[k] = [exists |-> TRUE, written |-> FALSE, open |-> obj[k].open \cup {p},
                mixed |-> FALSE, text |-> comp[p].text, readAt |-> comp[p].readAt, mtime |-> now]
          BY <1>d, <2>2, <2>3, <4>3, <5>2
        <5>4. \A q \in obj[k].open \cup {p} :
                /\ q \in Compiler /\ comp'[q] # NoCompilation
                /\ comp'[q].mod = k /\ comp'[q].stage = "open"
          BY <1>m, <2>4, <2>5, <3>2, <4>3, <5>1
        <5> QED  BY <2>1, <3>3, <4>3, <5>3, <5>4 DEF Sound
      <4> QED  BY <4>2, <4>3
    <3>5. \A k \in Module : /\ obj[k].open \subseteq obj'[k].open
                            /\ obj[k].exists => obj'[k].exists
      BY <1>d, <2>3
    <3>6. m \in Module => p \in obj'[m].open
      BY <1>d, <2>3
    <3>7. ASSUME NEW q \in Compiler PROVE Fits(q)'
      <4>1. CASE q = p
        BY <1>m, <2>1, <2>4, <3>3, <3>6, <4>1 DEF Fits
      <4>2. CASE q # p
        BY <2>1, <2>5, <3>1, <3>5, <4>2 DEF Fits, Repaired
      <4> QED  BY <4>1, <4>2
    <3>8. Covered'
      BY <2>1, <3>1, <3>5, OnlyModules DEF Covered, Uncut, Repaired
    <3> QED  BY <3>4, <3>7, <3>8 DEF Repaired
  <2> QED  BY <2>1, <2>6, <2>7, <2>8, <2>9 DEF RepairInv
<1>3. CASE CloseObject(p)
  <2>1. EndCompile(p) /\ Resume(p, FALSE) /\ remade' = Remade(p) /\ UNCHANGED src
        /\ comp[p].stage = "open"
    BY <1>3 DEF CloseObject
  <2>2. PICK w : w = (obj[m].open \ {p} = {} /\ ~ obj[m].mixed)
    OBVIOUS
  <2>3. obj' = IF p \in obj[m].open
                 THEN [obj EXCEPT ![m].open = obj[m].open \ {p}, ![m].mtime = now, ![m].written = w]
                 ELSE obj
    BY <1>3, <1>m, <2>2 DEF CloseObject
  <2>4. DOMAIN obj' = Module
    BY <1>d, <2>3
  <2>5. InTurn'
    BY <1>c, <1>d, <2>1, ResumeTurn
  <2>6. ASSUME remade' # "no" PROVE Repaired'
    <3>1. remade # "no"
      BY <2>1, <2>6 DEF Remade
    <3>2. Repaired
      BY <3>1 DEF RepairInv
    <3>3. ASSUME NEW k \in Module PROVE
            /\ Sound(k)'
            /\ obj[k].exists => obj'[k].exists
            /\ \A q \in Compiler : q # p /\ q \in obj[k].open => q \in obj'[k].open
      <4>1. Sound(k)
        BY <3>2 DEF Repaired
      <4>2. CASE k # m \/ p \notin obj[m].open
        <5>1. obj'[k] = obj[k]
          BY <1>d, <2>3, <4>2
        <5>2. obj[k] = NoFile \/ p \notin obj[k].open
          BY <1>m, <4>1, <4>2 DEF Sound
        <5> QED  BY <1>d, <1>e, <2>1, <4>1, <5>1, <5>2 DEF Sound
      <4>3. CASE k = m /\ p \in obj[m].open
        <5>1. obj[k] # NoFile
          BY <4>3 DEF NoFile
        <5>2. obj'[k] = [obj[k] EXCEPT !.open = obj[k].open \ {p}, !.mtime = now, !.written = w]
          BY <1>d, <2>3, <4>3
        <5>3. /\ {"exists", "written", "open", "mixed", "mtime", "text"} \subseteq DOMAIN obj'[k]
              /\ obj'[k].written = w /\ obj'[k].open = obj[k].open \ {p}
              /\ obj'[k].mixed = obj[k].mixed /\ obj'[k].exists = obj[k].exists
              /\ obj'[k].text = obj[k].text
          BY <4>1, <5>1, <5>2 DEF Sound
        <5>4. obj[k].open \ {p} = {} => w
          BY <2>2, <4>1, <4>3, <5>1 DEF Sound
        <5> QED  BY <1>d, <1>e, <2>1, <4>1, <5>1, <5>3, <5>4 DEF Sound
      <4> QED  BY <4>2, <4>3
    <3>4. \A q \in Compiler : Fits(q)'
      BY <1>d, <1>e, <2>1, <3>2, <3>3 DEF Repaired, Fits
    <3>5. Covered'
      <4>1. p = "make" => obj[OBJ[mk]].exists
        <5>1. p = "make" => p \in obj[m].open /\ Sound(m)
          BY <1>c, <1>m, <1>o, <2>1, <3>2 DEF Repaired, Fits
        <5> QED  BY <1>t, <5>1 DEF Sound, NoFile
      <4>2. p = "make" => obj'[OBJ[mk]].exists
        BY <1>o, <1>t, <3>3, <4>1
      <4> QED  BY <1>d, <1>t, <2>1, <3>1, <3>2, <3>3, <4>2, OnlyModules, ResumeCovered DEF Repaired
    <3> QED  BY <3>3, <3>4, <3>5 DEF Repaired
  <2> QED  BY <1>d, <1>e, <2>1, <2>4, <2>5, <2>6 DEF RepairInv, Remade
<1>4. CASE CompilerKilled(p)
  <2>1. EndCompile(p) /\ Resume(p, TRUE) /\ remade' = "no" /\ UNCHANGED src
    BY <1>4 DEF CompilerKilled
  <2>2. DOMAIN obj' = Module
    BY <1>4, <1>d DEF CompilerKilled
  <2>3. InTurn'
    BY <1>c, <1>d, <2>1, ResumeTurn
  <2> QED  BY <1>d, <1>e, <2>1, <2>2, <2>3 DEF RepairInv
<1> QED  BY <1>1, <1>2, <1>3, <1>4 DEF Compile

LEMMA RepairMake == RepairInv /\ Make => RepairInv'
<1> SUFFICES ASSUME RepairInv, Make PROVE RepairInv'
  OBVIOUS
<1>d. DOMAIN obj = Module /\ DOMAIN comp = Compiler /\ InTurn
  BY DEF RepairInv
<1>s. \A q \in Compiler : Shaped(q) /\ (comp[q].stage = "none" => comp[q] = NoCompilation)
  BY DEF RepairInv, Shaped
<1>m. "make" \in Compiler
  BY DEF Compiler
<1>1. CASE Clean
  <2>1. obj' = [k \in Module |-> NoFile] /\ UNCHANGED <<src, mk, comp>> /\ mk = 0
    BY <1>1 DEF Clean
  <2>2. \A q \in Compiler : Shaped(q)'
    BY <1>s, <2>1 DEF Shaped
  <2>3. InTurn'
    BY <1>d, <2>1 DEF InTurn
  <2>4. ASSUME remade' # "no" PROVE Repaired'
    <3>1. remade' = "clean" /\ \A q \in Compiler : comp[q] = NoCompilation
      BY <1>1, <1>s, <2>4 DEF Clean
    <3>2. \A i \in DOMAIN OBJ : ~ i < mk'
      BY <2>1, DeploymentAssumption
    <3> QED  BY <2>1, <3>1, <3>2 DEF Repaired, Fits, Sound, Covered
  <2>5. remade' \in {"no", "clean", "made"}
    BY <1>1 DEF Clean
  <2> QED  BY <1>d, <2>1, <2>2, <2>3, <2>4, <2>5 DEF RepairInv
<1>2. CASE MakeCompile
  <2>1. comp["make"] = NoCompilation /\ mk > 0
    BY <1>2, <1>m, <1>s DEF MakeCompile, MakeLooks
  <2> QED  BY <1>2, <1>m, <2>1, RepairStart DEF MakeCompile
<1>3. CASE MakeStart
  <2>1. mk = 0 /\ mk' = 1 /\ UNCHANGED <<src, obj, comp, remade>>
    BY <1>3 DEF MakeStart
  <2>2. \E i \in DOMAIN OBJ : OBJ[i] = "stems"
    BY DeploymentAssumption DEF Module, Generated
  <2>3. 1 \in 0..Len(OBJ)
    BY <2>2, DeploymentAssumption
  <2>4. InTurn'
    BY <1>d, <2>1, <2>3 DEF InTurn
  <2>5. \A q \in Compiler : Shaped(q)'
    BY <1>s, <2>1 DEF Shaped
  <2>6. ASSUME remade # "no" PROVE Repaired'
    <3>1. Repaired
      BY <2>6 DEF RepairInv
    <3>2. \A i \in DOMAIN OBJ : ~ i < mk'
      BY <2>1, DeploymentAssumption
    <3> QED  BY <2>1, <3>1, <3>2 DEF Repaired, Fits, Sound, Covered, Uncut
  <2> QED  BY <1>d, <2>1, <2>4, <2>5, <2>6 DEF RepairInv
<1>4. CASE MakeSkip
  <2>1. comp["make"] = NoCompilation /\ mk > 0 /\ obj[OBJ[mk]].exists
        /\ Resume("make", FALSE) /\ remade' = Remade("make") /\ UNCHANGED <<src, obj, comp>>
    BY <1>4, <1>m, <1>s DEF MakeSkip, MakeLooks, NeedsCompile
  <2>2. InTurn'
    <3>1. mk' = IF mk = Len(OBJ) THEN 0 ELSE mk + 1
      BY <2>1 DEF Resume
    <3>2. Len(OBJ) \in Nat
      BY DeploymentAssumption
    <3> QED  BY <1>d, <2>1, <3>1, <3>2 DEF InTurn
  <2>3. \A q \in Compiler : Shaped(q)'
    BY <1>s, <2>1 DEF Shaped
  <2>4. ASSUME remade' # "no" PROVE Repaired'
    <3>1. remade # "no"
      BY <2>1, <2>4 DEF Remade
    <3>2. Repaired
      BY <3>1 DEF RepairInv
    <3>3. Covered'
      BY <1>d, <2>1, <3>1, <3>2, ResumeCovered DEF Repaired
    <3> QED  BY <2>1, <3>2, <3>3 DEF Repaired, Fits, Sound
  <2> QED  BY <1>d, <2>1, <2>2, <2>3, <2>4 DEF RepairInv, Remade
<1> QED  BY <1>1, <1>2, <1>3, <1>4 DEF Make

\* The engine of a request compiles only while the request waits for it.
WaitInv ==
  /\ DOMAIN req = Requests /\ DOMAIN comp = Compiler
  /\ \A r \in Requests : /\ "pc" \in DOMAIN req[r]
                         /\ comp[r] # NoCompilation => req[r].pc = "compile"

LEMMA WaitInit == Init => WaitInv
BY DEF Init, WaitInv, Compiler, NoRequest

LEMMA WaitStep == WaitInv /\ [Next]_vars => WaitInv'
<1> SUFFICES ASSUME WaitInv, [Next]_vars PROVE WaitInv'
  OBVIOUS
<1>d. DOMAIN req = Requests /\ DOMAIN comp = Compiler /\ Requests \subseteq Compiler
  BY DEF WaitInv, Compiler
<1>1. ASSUME UNCHANGED comp, req' = Disturbed(req) PROVE WaitInv'
  BY <1>1 DEF WaitInv, Disturbed
<1>2. ASSUME UNCHANGED <<comp, req>> PROVE WaitInv'
  BY <1>2 DEF WaitInv
<1>3. CASE Tick \/ EditXml \/ EditModule \/ UNCHANGED vars
  BY <1>1, <1>2, <1>3 DEF Tick, EditXml, EditModule, SourceWritten, vars
<1>4. CASE Generate
  BY <1>1, <1>2, <1>4 DEF Generate, GenParse, GenOpenStems, GenFlush, GenCloseStems, GenDie,
     GenOpenSegments, GenCloseSegments, GenKilled, GenGoes, SourceWritten
<1>5. CASE Make
  <2>1. CASE Clean
    BY <1>1, <2>1 DEF Clean
  <2>2. CASE MakeStart \/ MakeSkip
    BY <1>2, <2>2 DEF MakeStart, MakeSkip, Resume
  <2>3. CASE MakeCompile
    <3>1. UNCHANGED req /\ DOMAIN comp' = Compiler /\ \A r \in Requests : comp'[r] = comp[r]
      BY <1>d, <2>3, DeploymentAssumption DEF MakeCompile, StartCompile
    <3> QED  BY <3>1 DEF WaitInv
  <2> QED  BY <1>5, <2>1, <2>2, <2>3 DEF Make
<1>6. ASSUME NEW p \in Compiler, Compile(p) PROVE WaitInv'
  <2>1. CASE OpenObject(p)
    <3>1. UNCHANGED req /\ comp' = [comp EXCEPT ![p].stage = "open"] /\ comp[p].stage = "read"
      BY <2>1 DEF OpenObject
    <3>2. comp[p] # NoCompilation
      BY <3>1 DEF NoCompilation
    <3> QED  BY <1>d, <3>1, <3>2 DEF WaitInv
  <2>2. CASE SyntaxError(p) \/ CloseObject(p) \/ CompilerKilled(p)
    <3>1. PICK failed \in BOOLEAN : EndCompile(p) /\ Resume(p, failed)
      BY <2>2 DEF SyntaxError, CloseObject, CompilerKilled
    <3>2. comp' = [comp EXCEPT ![p] = NoCompilation]
      BY <3>1 DEF EndCompile
    <3>3. CASE p = "make"
      BY <1>d, <3>1, <3>2, <3>3 DEF Resume, WaitInv
    <3>4. CASE p # "make"
      <4>1. PICK pc : pc = IF failed THEN "failed" ELSE "exec"
        OBVIOUS
      <4>2. req' = [req EXCEPT ![p].pc = pc]
        BY <3>1, <3>4, <4>1 DEF Resume
      <4> QED  BY <1>d, <3>2, <4>2 DEF WaitInv
    <3> QED  BY <3>3, <3>4
  <2> QED  BY <1>6, <2>1, <2>2 DEF Compile
<1>7. ASSUME NEW r \in Requests, Serve(r) PROVE WaitInv'
  <2>1. CASE LoadCompiles(r)
    <3>1. req' = [req EXCEPT ![r].pc = "compile"]
          /\ DOMAIN comp' = Compiler /\ \A q \in Requests : q # r => comp'[q] = comp[q]
      BY <1>d, <2>1 DEF LoadCompiles, StartCompile
    <3> QED  BY <1>d, <3>1 DEF WaitInv
  <2>2. CASE RequestStart(r) \/ RequestEnd(r)
    <3>1. UNCHANGED comp /\ req[r].pc # "compile"
      BY <2>2 DEF RequestStart, RequestEnd
    <3>2. DOMAIN req' = Requests /\ \A q \in Requests : q # r => req'[q] = req[q]
      BY <1>d, <2>2 DEF RequestStart, RequestEnd
    <3>3. "pc" \in DOMAIN req'[r]
      <4>1. CASE RequestStart(r)
        BY <1>d, <4>1 DEF RequestStart
      <4>2. CASE RequestEnd(r)
        BY <1>d, <4>2 DEF RequestEnd, NoRequest
      <4> QED  BY <2>2, <4>1, <4>2
    <3>4. ASSUME NEW q \in Requests
          PROVE  "pc" \in DOMAIN req'[q] /\ (comp'[q] # NoCompilation => req'[q].pc = "compile")
      BY <3>1, <3>2, <3>3 DEF WaitInv
    <3> QED  BY <1>d, <3>1, <3>2, <3>4 DEF WaitInv
  <2>3. CASE LoadObject(r) \/ LoadUnwritten(r) \/ LoadAgain(r) \/ LoadFails(r) \/ Answer(r)
    <3>1. UNCHANGED comp /\ req[r].pc # "compile" /\ DOMAIN req' = Requests
          /\ \A q \in Requests : (q # r => req'[q] = req[q]) /\ DOMAIN req'[q] = DOMAIN req[q]
      BY <1>d, <2>3 DEF LoadObject, LoadUnwritten, LoadAgain, LoadFails, Answer, Loads
    <3> QED  BY <3>1 DEF WaitInv
  <2> QED  BY <1>7, <2>1, <2>2, <2>3 DEF Serve
<1> QED  BY <1>3, <1>4, <1>5, <1>6, <1>7 DEF Next

LEMMA RepairStep == RepairInv /\ WaitInv /\ [Next]_vars => RepairInv'
<1> SUFFICES ASSUME RepairInv, WaitInv, [Next]_vars PROVE RepairInv'
  OBVIOUS
<1>1. CASE Tick \/ EditXml \/ EditModule \/ UNCHANGED vars
  <2>1. UNCHANGED <<obj, comp, mk>> /\ (remade' = "no" \/ UNCHANGED <<src, remade>>)
    BY <1>1 DEF Tick, EditXml, EditModule, SourceWritten, vars
  <2> QED  BY <2>1, RepairFrame
<1>2. CASE Generate
  <2>1. UNCHANGED <<obj, comp, mk>> /\ (remade' = "no" \/ UNCHANGED <<src, remade>>)
    BY <1>2 DEF Generate, GenParse, GenOpenStems, GenFlush, GenCloseStems, GenDie,
         GenOpenSegments, GenCloseSegments, GenKilled, GenGoes, SourceWritten
  <2> QED  BY <2>1, RepairFrame
<1>3. CASE Make
  BY <1>3, RepairMake
<1>4. ASSUME NEW p \in Compiler, Compile(p) PROVE RepairInv'
  BY <1>4, RepairCompiler
<1>5. ASSUME NEW r \in Requests, Serve(r) PROVE RepairInv'
  <2>1. CASE LoadCompiles(r)
    <3>1. req[r].pc # "compile"
      BY <2>1 DEF LoadCompiles, Loads
    <3>2. comp[r] = NoCompilation
      BY <3>1 DEF WaitInv
    <3>3. r \in Compiler /\ r # "make"
      BY DeploymentAssumption DEF Compiler
    <3>4. StartCompile(r, Wanted(r)) /\ UNCHANGED <<src, obj, mk, remade>>
      BY <2>1 DEF LoadCompiles
    <3> QED  BY <3>2, <3>3, <3>4, RepairStart
  <2>2. CASE RequestStart(r) \/ LoadObject(r) \/ LoadUnwritten(r) \/ LoadAgain(r) \/ LoadFails(r)
             \/ Answer(r) \/ RequestEnd(r)
    <3>1. UNCHANGED <<src, obj, comp, mk, remade>>
      BY <2>2 DEF RequestStart, LoadObject, LoadUnwritten, LoadAgain, LoadFails, Answer, RequestEnd
    <3> QED  BY <3>1, RepairFrame
  <2> QED  BY <1>5, <2>1, <2>2 DEF Serve
<1> QED  BY <1>1, <1>2, <1>3, <1>4, <1>5 DEF Next

\* make clean and make mend every object file, for any number of modules and of
\* requests that compile the same modules meanwhile.
THEOREM CleanMakeAlwaysRepairs == Spec => []CleanMakeRepairs
BY WaitInit, WaitStep, RepairInit, RepairStep, RepairEnough, PTL DEF Spec

--------------------------------------------------------------------------------
(* TypeOK.  Versions keep within their bound because each edit takes a     *)
(* command, and whoever compiles has it noted where it writes.             *)

TypeInv ==
  /\ TypeOK
  /\ DOMAIN obj = Module /\ DOMAIN comp = Compiler /\ DOMAIN req = Requests
  /\ \A f \in {"segments", "bases"} : xml[f] <= commands + 1
  /\ \A m \in Handwritten : src[m].text.ver <= commands

TypedSteps == WaitInv /\ InTurn /\ TypeInv

LEMMA TypeInit == Init => TypeInv
<1> SUFFICES ASSUME Init PROVE TypeInv
  OBVIOUS
<1>1. 0 \in Version /\ 1 \in Version /\ 0 \in 0..MaxTime /\ 0 \in 0..MaxCommands /\ 0 \in 0..MaxKills
  BY DeploymentAssumption DEF Version
<1>2. OldText \in Text
  BY <1>1 DEF OldText, Text
<1>3. src \in [Module -> Source] /\ \A m \in Module : src[m].text.ver = 0
  BY <1>1, <1>2 DEF Init, Source, OldText
<1>4. \A m \in Module : obj[m] \in Object /\ obj[m].open = {}
  BY <1>1, <1>2 DEF Init, Object
<1>5. mk \in 0..Len(OBJ)
  BY DeploymentAssumption DEF Init
<1>6. xml \in [{"segments", "bases"} -> Version] /\ \A f \in {"segments", "bases"} : xml[f] <= 1
  BY <1>1 DEF Init
<1>7. gen \in [pc : {"idle", "parsed", "stems", "written", "segments"}, seg : Version]
  BY <1>1 DEF Init
<1>8. /\ DOMAIN obj = Module /\ DOMAIN comp = Compiler /\ DOMAIN req = Requests
      /\ \A p \in Compiler : comp[p] \in Compilation \cup {NoCompilation}
      /\ \A r \in Requests : req[r] \in Request \cup {NoRequest}
      /\ now = 0 /\ commands = 0 /\ kills = 0 /\ finished \in BOOLEAN /\ remade = "no"
  BY DEF Init
<1>9. TypeOK
  BY <1>1, <1>3, <1>4, <1>5, <1>6, <1>7, <1>8 DEF TypeOK
<1> QED  BY <1>3, <1>6, <1>8, <1>9 DEF TypeInv, Module

\* A step that leaves the compilers' work and the object files alone.
LEMMA TypeFrame ==
  ASSUME TypeInv, UNCHANGED <<obj, comp>>,
         now' \in 0..MaxTime, commands' \in 0..MaxCommands, commands' >= commands, kills' \in 0..MaxKills,
         xml' \in [{"segments", "bases"} -> Version],
         \A f \in {"segments", "bases"} : xml'[f] <= commands' + 1,
         src' \in [Module -> Source], \A m \in Handwritten : src'[m].text.ver <= commands',
         gen' \in [pc : {"idle", "parsed", "stems", "written", "segments"}, seg : Version],
         mk' \in 0..Len(OBJ), finished' \in BOOLEAN, remade' \in {"no", "clean", "made"},
         DOMAIN req' = Requests, \A r \in Requests : req'[r] \in Request \cup {NoRequest}
  PROVE  TypeInv'
BY DEF TypeInv, TypeOK

LEMMA DisturbedTyped ==
  ASSUME TypeInv
  PROVE  LET q == Disturbed(req) IN DOMAIN q = Requests /\ \A r \in Requests : q[r] \in Request \cup {NoRequest}
<1> SUFFICES ASSUME NEW r \in Requests PROVE Disturbed(req)[r] \in Request \cup {NoRequest}
  BY DEF Disturbed
<1>1. req[r] \in Request \cup {NoRequest}
  BY DEF TypeInv, TypeOK
<1>2. CASE req[r].pc = "idle"
  BY <1>1, <1>2 DEF Disturbed
<1>3. CASE req[r].pc # "idle"
  <2>1. req[r] \in Request
    BY <1>1, <1>3 DEF NoRequest
  <2>2. Disturbed(req)[r] = [req[r] EXCEPT !.calm = FALSE]
    BY <1>3 DEF Disturbed
  <2> QED  BY <2>1, <2>2 DEF Request
<1> QED  BY <1>2, <1>3

LEMMA CommandTyped ==
  ASSUME TypeInv, Command
  PROVE  commands' \in 0..MaxCommands /\ commands' = commands + 1 /\ commands \in Nat
BY DeploymentAssumption DEF TypeInv, TypeOK, Command

\* The generator writes texts of its own versions at the time of the clock.
LEMMA WriteTyped ==
  ASSUME TypeInv, NEW m \in Generated, NEW text \in Text, Write(m, text)
  PROVE  src' \in [Module -> Source] /\ \A k \in Handwritten : src'[k] = src[k]
BY DeploymentAssumption DEF TypeInv, TypeOK, Write, Module, Source

LEMMA GenTyped ==
  ASSUME TypeInv, NEW pc \in {"idle", "parsed", "stems", "written", "segments"}, GenGoes(pc),
         src' \in [Module -> Source], \A k \in Handwritten : src'[k] = src[k], finished' \in BOOLEAN
  PROVE  TypeInv'
<1>1. req' = Disturbed(req) /\ remade' = "no" /\ UNCHANGED <<commands, now, kills, xml, obj, mk, comp>>
      /\ gen' = [gen EXCEPT !.pc = pc]
  BY DEF GenGoes, SourceWritten
<1>2. gen' \in [pc : {"idle", "parsed", "stems", "written", "segments"}, seg : Version]
  BY <1>1 DEF TypeInv, TypeOK
<1>3. commands \in Nat
  BY DeploymentAssumption DEF TypeInv, TypeOK
<1> QED  BY <1>1, <1>2, <1>3, TypeFrame, DisturbedTyped DEF TypeInv, TypeOK

LEMMA TypeGenerate ==
  ASSUME TypeInv, Generate
  PROVE  TypeInv'
<1>g. /\ gen.seg \in Version /\ xml.bases \in Version /\ xml.segments \in Version
      /\ gen.pc \in {"idle", "parsed", "stems", "written", "segments"}
      /\ src \in [Module -> Source] /\ finished \in BOOLEAN
      /\ now \in 0..MaxTime /\ commands \in 0..MaxCommands /\ kills \in 0..MaxKills
  BY DEF TypeInv, TypeOK
<1>n. commands \in Nat /\ kills \in Nat /\ MaxKills \in Nat
  BY <1>g, DeploymentAssumption
<1>t. \A part \in {"empty", "cut", "whole"} : StemsText(part) \in Text /\ SegmentsText(part) \in Text
  BY <1>g DEF StemsText, SegmentsText, Text
<1>m. "stems" \in Generated /\ "segments" \in Generated
  BY DEF Generated
<1>1. CASE GenParse
  <2>1. /\ Command /\ gen' = [pc |-> "parsed", seg |-> xml.segments]
        /\ UNCHANGED <<now, kills, xml, src, obj, mk, comp, req, finished, remade>>
    BY <1>1 DEF GenParse
  <2>2. \A m \in Handwritten : src[m].text.ver <= commands + 1
    <3> SUFFICES ASSUME NEW m \in Handwritten PROVE src[m].text.ver <= commands + 1
      OBVIOUS
    <3>1. src[m] \in Source /\ src[m].text.ver <= commands
      BY DEF TypeInv, TypeOK, Module
    <3> QED  BY <1>n, <3>1, DeploymentAssumption DEF Source, Text, Version
  <2>3. \A f \in {"segments", "bases"} : xml[f] <= commands + 1 + 1
    BY <1>g, <1>n, DeploymentAssumption DEF TypeInv, TypeOK, Version
  <2> QED  BY <1>g, <1>n, <2>1, <2>2, <2>3, CommandTyped, TypeFrame DEF TypeInv, TypeOK
<1>2. CASE GenOpenStems
  BY <1>2, <1>t, <1>m, WriteTyped, GenTyped DEF GenOpenStems
<1>3. CASE GenFlush
  BY <1>3, <1>g, <1>t, <1>m, WriteTyped, GenTyped DEF GenFlush
<1>4. CASE GenCloseStems
  BY <1>4, <1>g, <1>t, <1>m, WriteTyped, GenTyped DEF GenCloseStems
<1>5. CASE GenDie
  <2>1. src' \in [Module -> Source] /\ \A k \in Handwritten : src'[k] = src[k]
    BY <1>5, <1>g, <1>t, <1>m, WriteTyped DEF GenDie
  <2> QED  BY <1>5, <1>g, <2>1, GenTyped DEF GenDie
<1>6. CASE GenOpenSegments
  BY <1>6, <1>g, <1>t, <1>m, WriteTyped, GenTyped DEF GenOpenSegments
<1>7. CASE GenCloseSegments
  BY <1>7, <1>t, <1>m, WriteTyped, GenTyped DEF GenCloseSegments
<1>8. CASE GenKilled
  <2>1. /\ kills < MaxKills /\ kills' = kills + 1 /\ gen' = [gen EXCEPT !.pc = "idle"]
        /\ UNCHANGED <<commands, now, xml, src, obj, mk, comp, req, finished, remade>>
    BY <1>8 DEF GenKilled
  <2>2. gen' \in [pc : {"idle", "parsed", "stems", "written", "segments"}, seg : Version]
    BY <2>1 DEF TypeInv, TypeOK
  <2>3. kills' \in 0..MaxKills
    BY <1>n, <2>1
  <2> QED  BY <1>n, <2>1, <2>2, <2>3, TypeFrame DEF TypeInv, TypeOK
<1> QED  BY <1>1, <1>2, <1>3, <1>4, <1>5, <1>6, <1>7, <1>8 DEF Generate

\* A compilation begins: it is of a module, and nobody has the process write.
LEMMA TypeStart ==
  ASSUME TypeInv, NEW p \in Compiler, NEW m \in Module, StartCompile(p, m), comp[p].stage = "none",
         UNCHANGED <<now, commands, kills, xml, src, obj, gen, mk, finished, remade>>,
         DOMAIN req' = Requests, \A r \in Requests : req'[r] \in Request \cup {NoRequest}
  PROVE  TypeInv'
<1>1. comp' = [comp EXCEPT ![p] = [stage |-> "read", mod |-> m, text |-> src[m].text, readAt |-> now]]
  BY DEF StartCompile
<1>2. [stage |-> "read", mod |-> m, text |-> src[m].text, readAt |-> now] \in Compilation
  BY DEF TypeInv, TypeOK, Source, Compilation
<1>3. \A q \in Compiler : comp'[q] \in Compilation \cup {NoCompilation}
  BY <1>1, <1>2 DEF TypeInv, TypeOK
<1>4. ASSUME NEW k \in Module, NEW q \in obj[k].open
      PROVE  comp'[q].stage = "open" /\ comp'[q].mod = k
  <2>1. comp[q].stage = "open" /\ comp[q].mod = k
    BY DEF TypeInv, TypeOK
  <2> QED  BY <1>1, <2>1
<1> QED  BY <1>1, <1>3, <1>4 DEF TypeInv, TypeOK

\* A compilation ends, and the command or the request goes on.
LEMMA TypeEnd ==
  ASSUME TypedSteps, NEW p \in Compiler, comp[p].stage # "none",
         EndCompile(p), NEW failed \in BOOLEAN, Resume(p, failed),
         UNCHANGED <<now, commands, xml, src, gen, finished>>,
         kills' \in 0..MaxKills, remade' \in {"no", "clean", "made"},
         DOMAIN obj' = Module, \A m \in Module : obj'[m] \in Object \cup {NoFile},
         \A m \in Module : obj'[m].open \subseteq obj[m].open \ {p}
  PROVE  TypeInv'
<1>1. comp' = [comp EXCEPT ![p] = NoCompilation]
  BY DEF EndCompile
<1>2. comp[p] # NoCompilation
  BY DEF NoCompilation
<1>3. \A q \in Compiler : comp'[q] \in Compilation \cup {NoCompilation}
  BY <1>1 DEF TypedSteps, TypeInv, TypeOK
<1>4. ASSUME NEW k \in Module, NEW q \in obj'[k].open
      PROVE  comp'[q].stage = "open" /\ comp'[q].mod = k
  <2>1. q # p /\ comp[q].stage = "open" /\ comp[q].mod = k
    BY DEF TypedSteps, TypeInv, TypeOK
  <2> QED  BY <1>1, <2>1
<1>5. mk' \in 0..Len(OBJ)
  BY <1>2, ResumeTurn DEF TypedSteps, TypeInv, InTurn
<1>6. DOMAIN req' = Requests /\ \A r \in Requests : req'[r] \in Request \cup {NoRequest}
  <2>1. CASE p = "make"
    BY <2>1 DEF Resume, TypedSteps, TypeInv, TypeOK
  <2>2. CASE p # "make"
    <3>1. PICK pc \in {"failed", "exec"} : req' = [req EXCEPT ![p].pc = pc]
      BY <2>2 DEF Resume
    <3>2. p \in Requests /\ req[p].pc = "compile"
      BY <1>2, <2>2 DEF Compiler, TypedSteps, WaitInv
    <3>3. req[p] \in Request
      BY <3>2 DEF TypedSteps, TypeInv, TypeOK, NoRequest
    <3>4. [req[p] EXCEPT !.pc = pc] \in Request
      BY <3>2, <3>3 DEF Request
    <3> QED  BY <3>1, <3>2, <3>4 DEF TypedSteps, TypeInv, TypeOK
  <2> QED  BY <2>1, <2>2
<1> QED  BY <1>1, <1>3, <1>4, <1>5, <1>6 DEF TypedSteps, TypeInv, TypeOK

LEMMA TypeCompile ==
  ASSUME TypedSteps, NEW p \in Compiler, Compile(p)
  PROVE  TypeInv'
<1>d. /\ DOMAIN obj = Module /\ DOMAIN comp = Compiler
      /\ \A m \in Module : obj[m] \in Object \cup {NoFile}
      /\ kills \in 0..MaxKills /\ remade \in {"no", "clean", "made"} /\ now \in 0..MaxTime
  BY DEF TypedSteps, TypeInv, TypeOK
<1>r. Remade(p) \in {"no", "clean", "made"}
  BY <1>d DEF Remade
<1>p. ASSUME comp[p].stage # "none"
      PROVE  comp[p] \in Compilation
  BY <1>p DEF NoCompilation, TypedSteps, TypeInv, TypeOK
<1>o. ASSUME NEW m \in Module, NEW q \in obj[m].open
      PROVE  obj[m] \in Object /\ q \in Compiler /\ comp[q].stage = "open" /\ comp[q].mod = m
  <2>1. obj[m] \in Object
    BY <1>d DEF NoFile
  <2> QED  BY <2>1 DEF Object, TypedSteps, TypeInv, TypeOK
<1>1. CASE SyntaxError(p)
  <2>1. UNCHANGED obj /\ comp[p].stage = "read"
    BY <1>1 DEF SyntaxError
  <2>2. \A m \in Module : p \notin obj[m].open
    BY <1>o, <2>1
  <2> QED  BY ZenonT(30), <1>1, <1>d, <1>r, <2>1, <2>2, TypeEnd DEF SyntaxError
<1>2. CASE OpenObject(p)
  <2>1. comp[p].stage = "read" /\ comp' = [comp EXCEPT ![p].stage = "open"]
        /\ UNCHANGED <<commands, now, kills, xml, src, gen, mk, req, finished, remade>>
    BY <1>2 DEF OpenObject
  <2>2. PICK m : m = comp[p].mod
    OBVIOUS
  <2>c. comp[p] \in Compilation /\ m \in Module
    BY <1>p, <2>1, <2>2 DEF Compilation
  <2>3. PICK x \in BOOLEAN : x = (\E q \in obj[m].open : obj[m].mixed \/ comp[q].text # comp[p].text)
    OBVIOUS
  <2>4. obj' = [obj EXCEPT ![m] =
           [exists |-> TRUE, written |-> FALSE, open |-> obj[m].open \cup {p}, mixed |-> x,
            text |-> comp[p].text, readAt |-> comp[p].readAt, mtime |-> now]]
    BY <1>2, <2>2, <2>3 DEF OpenObject
  <2>5. obj'[m] \in Object
    <3>1. obj[m].open \subseteq Compiler
      BY <1>o, <2>c
    <3> QED  BY <1>d, <2>c, <2>4, <3>1 DEF Object, Compilation
  <2>6. comp'[p] \in Compilation /\ comp'[p].stage = "open" /\ comp'[p].mod = m
    BY <1>d, <2>1, <2>2, <2>c DEF Compilation
  <2>7. \A q \in Compiler : q # p => comp'[q] = comp[q]
    BY <1>d, <2>1
  <2>8. ASSUME NEW k \in Module, NEW q \in obj'[k].open
        PROVE  comp'[q].stage = "open" /\ comp'[q].mod = k
    <3>1. CASE q \in obj[k].open
      BY <1>o, <2>1, <2>7, <3>1
    <3>2. CASE q \notin obj[k].open
      <4>1. k = m /\ q = p
        BY <1>d, <2>4, <3>2
      <4> QED  BY <2>6, <4>1
    <3> QED  BY <3>1, <3>2
  <2>9. /\ DOMAIN obj' = Module /\ DOMAIN comp' = Compiler
        /\ \A k \in Module : obj'[k] \in Object \cup {NoFile}
        /\ \A q \in Compiler : comp'[q] \in Compilation \cup {NoCompilation}
    BY <1>d, <2>1, <2>4, <2>5, <2>6, <2>7 DEF TypedSteps, TypeInv, TypeOK
  <2> QED  BY <2>1, <2>8, <2>9 DEF TypedSteps, TypeInv, TypeOK
<1>3. CASE CloseObject(p)
  <2>1. comp[p].stage = "open" /\ kills' = kills /\ remade' = Remade(p)
    BY <1>3 DEF CloseObject
  <2>2. PICK m : m = comp[p].mod
    OBVIOUS
  <2>3. PICK w \in BOOLEAN : w = (obj[m].open \ {p} = {} /\ ~ obj[m].mixed)
    OBVIOUS
  <2>4. obj' = IF p \in obj[m].open
                 THEN [obj EXCEPT ![m].open = obj[m].open \ {p}, ![m].mtime = now, ![m].written = w]
                 ELSE obj
    BY <1>3, <2>2, <2>3 DEF CloseObject
  <2>5. m \in Module
    BY <1>p, <2>1, <2>2 DEF Compilation
  <2>6. ASSUME NEW k \in Module
        PROVE  obj'[k] \in Object \cup {NoFile} /\ obj'[k].open \subseteq obj[k].open \ {p}
    <3>1. CASE k = m /\ p \in obj[m].open
      <4>1. obj'[k] = [obj[m] EXCEPT !.open = obj[m].open \ {p}, !.mtime = now, !.written = w]
        BY <1>d, <2>4, <2>5, <3>1
      <4>2. obj[m] \in Object
        BY <1>o, <2>5, <3>1
      <4> QED  BY ZenonT(30), <1>d, <3>1, <4>1, <4>2 DEF Object
    <3>2. CASE k # m \/ p \notin obj[m].open
      <4>1. obj'[k] = obj[k]
        BY <1>d, <2>4, <3>2
      <4>2. p \notin obj[k].open
        BY <1>o, <2>2, <3>2
      <4> QED  BY <1>d, <4>1, <4>2
    <3> QED  BY <3>1, <3>2
  <2>7. DOMAIN obj' = Module
    BY <1>d, <2>4
  <2> QED  BY <1>3, <1>d, <1>r, <2>1, <2>6, <2>7, TypeEnd DEF CloseObject
<1>4. CASE CompilerKilled(p)
  <2>1. comp[p].stage # "none" /\ kills < MaxKills /\ kills' = kills + 1 /\ remade' = "no"
    BY <1>4 DEF CompilerKilled
  <2>2. PICK m : m = comp[p].mod
    OBVIOUS
  <2>3. PICK damage \in BOOLEAN :
          obj' = IF p \in obj[m].open
                   THEN [obj EXCEPT ![m].open = @ \ {p}, ![m].mixed = @ \/ damage] ELSE obj
    BY <1>4, <2>2 DEF CompilerKilled
  <2>5. m \in Module
    BY <1>p, <2>1, <2>2 DEF Compilation
  <2>6. ASSUME NEW k \in Module
        PROVE  obj'[k] \in Object \cup {NoFile} /\ obj'[k].open \subseteq obj[k].open \ {p}
    <3>1. CASE k = m /\ p \in obj[m].open
      <4>1. PICK x \in BOOLEAN : x = (obj[m].mixed \/ damage)
        OBVIOUS
      <4>2. obj'[k] = [obj[m] EXCEPT !.open = obj[m].open \ {p}, !.mixed = x]
        BY <1>d, <2>3, <2>5, <3>1, <4>1
      <4>3. obj[m] \in Object
        BY <1>o, <2>5, <3>1
      <4> QED  BY ZenonT(30), <3>1, <4>2, <4>3 DEF Object
    <3>2. CASE k # m \/ p \notin obj[m].open
      <4>1. obj'[k] = obj[k]
        BY <1>d, <2>3, <3>2
      <4>2. p \notin obj[k].open
        BY <1>o, <2>2, <3>2
      <4> QED  BY <1>d, <4>1, <4>2
    <3> QED  BY <3>1, <3>2
  <2>7. DOMAIN obj' = Module
    BY <1>d, <2>3
  <2>8. kills' \in 0..MaxKills
    BY <1>d, <2>1, DeploymentAssumption
  <2> QED  BY <1>4, <2>1, <2>6, <2>7, <2>8, TypeEnd DEF CompilerKilled
<1> QED  BY <1>1, <1>2, <1>3, <1>4 DEF Compile

LEMMA ModulesToMake == Len(OBJ) \in Nat /\ 1 <= Len(OBJ) /\ DOMAIN OBJ = 1..Len(OBJ)
<1>1. \E i \in DOMAIN OBJ : OBJ[i] = "stems"
  BY DeploymentAssumption DEF Module, Generated
<1>2. Len(OBJ) \in Nat /\ DOMAIN OBJ = 1..Len(OBJ)
  BY DeploymentAssumption
<1> QED  BY <1>1, <1>2

LEMMA CommandsSpent ==
  ASSUME TypeInv, Command
  PROVE  /\ \A m \in Handwritten : src[m].text.ver \in Nat /\ src[m].text.ver <= commands'
         /\ \A f \in {"segments", "bases"} : xml[f] \in Nat /\ xml[f] + 1 <= commands' + 1
<1>1. commands \in Nat /\ commands' = commands + 1
  BY CommandTyped
<1>2. \A m \in Handwritten : src[m].text.ver \in Nat
  BY DEF TypeInv, TypeOK, Module, Source, Text, Version
<1>3. \A f \in {"segments", "bases"} : xml[f] \in Nat
  BY DEF TypeInv, TypeOK, Version
<1> QED  BY <1>1, <1>2, <1>3 DEF TypeInv

LEMMA TypeMake ==
  ASSUME TypedSteps, Make
  PROVE  TypeInv'
<1>i. TypeInv /\ InTurn /\ "make" \in Compiler /\ mk \in 0..Len(OBJ)
  BY DEF TypedSteps, InTurn, Compiler
<1>1. CASE Clean
  <2>1. /\ Command /\ obj' = [m \in Module |-> NoFile] /\ req' = Disturbed(req)
        /\ remade' \in {"no", "clean", "made"}
        /\ UNCHANGED <<now, kills, xml, src, gen, mk, comp, finished>>
    BY <1>1 DEF Clean
  <2>2. \A m \in Module : obj'[m] = NoFile /\ obj'[m].open = {}
    BY <2>1 DEF NoFile
  <2> QED  BY <1>i, <2>1, <2>2, CommandTyped, CommandsSpent, DisturbedTyped DEF TypeInv, TypeOK
<1>2. CASE MakeStart
  <2>1. Command /\ mk' = 1
        /\ UNCHANGED <<now, kills, xml, src, gen, obj, comp, req, finished, remade>>
    BY <1>2 DEF MakeStart
  <2>2. mk' \in 0..Len(OBJ)
    BY <2>1, ModulesToMake
  <2> QED  BY <1>i, <2>1, <2>2, CommandTyped, CommandsSpent DEF TypeInv, TypeOK
<1>3. CASE MakeCompile
  <2>1. mk > 0 /\ comp["make"].stage = "none" /\ StartCompile("make", OBJ[mk])
        /\ UNCHANGED <<commands, now, kills, xml, src, obj, gen, mk, req, finished, remade>>
    BY <1>3 DEF MakeCompile, MakeLooks
  <2>2. OBJ[mk] \in Module
    BY <1>i, <2>1, ModulesToMake, OnlyModules
  <2> QED  BY <1>i, <2>1, <2>2, TypeStart DEF TypeInv, TypeOK
<1>4. CASE MakeSkip
  <2>1. mk' = (IF mk = Len(OBJ) THEN 0 ELSE mk + 1) /\ UNCHANGED req /\ remade' = Remade("make")
        /\ UNCHANGED <<commands, now, kills, xml, src, obj, gen, comp, finished>>
    BY <1>4 DEF MakeSkip, Resume
  <2>2. mk' \in 0..Len(OBJ)
    <3>1. PICK n \in Nat : n = Len(OBJ)
      BY ModulesToMake
    <3>2. mk \in 0..n /\ mk' = IF mk = n THEN 0 ELSE mk + 1
      BY <1>i, <2>1, <3>1
    <3>3. mk' \in 0..n
      BY <3>2
    <3> QED  BY <3>1, <3>3
  <2>3. remade' \in {"no", "clean", "made"}
    BY <2>1 DEF Remade, TypedSteps, TypeInv, TypeOK
  <2> QED  BY <1>i, <2>1, <2>2, <2>3 DEF TypeInv, TypeOK
<1> QED  BY <1>1, <1>2, <1>3, <1>4 DEF Make

LEMMA TypeServe ==
  ASSUME TypedSteps, NEW r \in Requests, Serve(r)
  PROVE  TypeInv'
<1>i. /\ TypeInv /\ DOMAIN req = Requests /\ r \in Compiler
      /\ \A q \in Requests : req[q] \in Request \cup {NoRequest}
  BY DEF TypedSteps, TypeInv, TypeOK, Compiler
<1>p. req[r].pc # "idle" => req[r] \in Request
  BY <1>i DEF NoRequest
<1>f. ASSUME UNCHANGED <<commands, now, kills, xml, src, obj, gen, mk, comp, finished, remade>>,
             NEW q \in Request \cup {NoRequest}, req' = [req EXCEPT ![r] = q]
      PROVE  TypeInv'
  BY <1>f, <1>i DEF TypeInv, TypeOK
<1>1. CASE RequestStart(r)
  <2>1. Deployed \in BOOLEAN
    BY DEF Deployed
  <2>2. [pc |-> "load", seg |-> xml.segments, loaded |-> 0, asOne |-> TRUE, calm |-> Deployed] \in Request
    BY <2>1, ModulesToMake DEF Request, TypedSteps, TypeInv, TypeOK
  <2> QED  BY <1>1, <1>f, <2>2 DEF RequestStart
<1>2. CASE LoadObject(r)
  <2>1. PICK b \in BOOLEAN : b = (req[r].asOne /\ (Wanted(r) \in Generated => obj[Wanted(r)].text.seg = req[r].seg))
    OBVIOUS
  <2>2. req' = [req EXCEPT ![r] = [req[r] EXCEPT !.pc = "load", !.loaded = @ + 1, !.asOne = b]]
    BY <1>2, <1>i, <2>1 DEF LoadObject
  <2>3. req[r] \in Request /\ req[r].loaded < Len(OBJ)
    BY <1>2, <1>p DEF LoadObject, Loads, Request
  <2>4. [req[r] EXCEPT !.pc = "load", !.loaded = @ + 1, !.asOne = b] \in Request
    <3>1. PICK n \in Nat : n = Len(OBJ)
      BY ModulesToMake
    <3>2. req[r].loaded \in 0..n /\ req[r].loaded < n
      BY <2>3, <3>1 DEF Request
    <3>3. req[r].loaded + 1 \in 0..Len(OBJ)
      BY <3>1, <3>2
    <3> QED  BY <2>3, <3>3 DEF Request
  <2> QED  BY <1>2, <1>f, <2>2, <2>4 DEF LoadObject
<1>3. CASE LoadUnwritten(r) \/ LoadAgain(r) \/ LoadFails(r) \/ Answer(r)
  <2>1. PICK pc \in {"reconsult", "exec", "failed", "answered"} :
          /\ req[r].pc \in {"load", "reconsult", "exec"}
          /\ pc \in {"reconsult", "exec"} => req[r].loaded < Len(OBJ)
          /\ req' = [req EXCEPT ![r].pc = pc]
          /\ UNCHANGED <<commands, now, kills, xml, src, obj, gen, mk, comp, finished, remade>>
    <3>1. CASE LoadUnwritten(r)
      BY <3>1 DEF LoadUnwritten, Loads
    <3>2. CASE LoadAgain(r)
      BY <3>2, <1>p DEF LoadAgain, Request
    <3>3. CASE LoadFails(r) \/ Answer(r)
      BY <3>3 DEF LoadFails, Answer
    <3> QED  BY <1>3, <3>1, <3>2, <3>3
  <2>2. req' = [req EXCEPT ![r] = [req[r] EXCEPT !.pc = pc]] /\ [req[r] EXCEPT !.pc = pc] \in Request
    BY <1>i, <1>p, <2>1 DEF Request
  <2> QED  BY <1>f, <2>1, <2>2
<1>4. CASE LoadCompiles(r)
  <2>1. req[r].pc = "reconsult" /\ StartCompile(r, Wanted(r))
        /\ req' = [req EXCEPT ![r].pc = "compile"]
        /\ UNCHANGED <<commands, now, kills, xml, src, obj, gen, mk, finished, remade>>
    BY <1>4 DEF LoadCompiles
  <2>2. comp[r] = NoCompilation
    BY <2>1 DEF TypedSteps, WaitInv
  <2>3. Wanted(r) \in Module
    <3>1. req[r].loaded + 1 \in DOMAIN OBJ
      BY <1>p, <2>1, ModulesToMake DEF Request
    <3> QED  BY <3>1, OnlyModules DEF Wanted
  <2>4. req'[r] \in Request
    BY <1>i, <1>p, <2>1 DEF Request
  <2> QED  BY <1>i, <2>1, <2>2, <2>3, <2>4, TypeStart DEF NoCompilation
<1>5. CASE RequestEnd(r)
  BY <1>5, <1>f DEF RequestEnd
<1> QED  BY <1>1, <1>2, <1>3, <1>4, <1>5 DEF Serve

LEMMA TypeStep == TypedSteps /\ [Next]_vars => TypeInv'
<1> SUFFICES ASSUME TypedSteps, [Next]_vars PROVE TypeInv'
  OBVIOUS
<1>i. TypeInv /\ now \in 0..MaxTime /\ commands \in 0..MaxCommands
  BY DEF TypedSteps, TypeInv, TypeOK
<1>n. commands \in Nat /\ now \in Nat /\ MaxTime \in Nat
  BY <1>i, DeploymentAssumption
<1>1. CASE Tick
  <2>1. now' \in 0..MaxTime
    BY <1>1, <1>n DEF Tick
  <2> QED  BY <1>1, <1>i, <1>n, <2>1, TypeFrame DEF Tick, TypeInv, TypeOK
<1>2. CASE EditXml
  <2>1. PICK f \in {"segments", "bases"} : xml' = [xml EXCEPT ![f] = @ + 1]
    BY <1>2 DEF EditXml
  <2>2. Command /\ req' = Disturbed(req) /\ UNCHANGED <<now, kills, src, obj, gen, mk, comp, finished, remade>>
    BY <1>2 DEF EditXml
  <2>3. commands' \in 0..MaxCommands /\ commands' = commands + 1
    BY <1>i, <2>2, CommandTyped
  <2>4. \A g \in {"segments", "bases"} : xml[g] \in Nat /\ xml[g] <= commands + 1
    BY <1>i DEF TypeInv, TypeOK, Version
  <2>5. xml' \in [{"segments", "bases"} -> Version] /\ \A g \in {"segments", "bases"} : xml'[g] <= commands' + 1
    BY SMTT(30), <1>i, <1>n, <2>1, <2>3, <2>4, DeploymentAssumption DEF TypeInv, TypeOK, Version
  <2>6. \A m \in Handwritten : src'[m].text.ver <= commands'
    BY <1>i, <2>2, CommandsSpent
  <2> QED  BY <1>i, <1>n, <2>2, <2>3, <2>5, <2>6, TypeFrame, DisturbedTyped DEF TypeInv, TypeOK
<1>3. CASE EditModule
  <2>1. PICK m \in Handwritten : src' = [src EXCEPT ![m] =
          [text |-> [src[m].text EXCEPT !.ver = @ + 1], mtime |-> now]]
    BY <1>3 DEF EditModule
  <2>2. /\ Command /\ req' = Disturbed(req) /\ remade' = "no"
        /\ UNCHANGED <<now, kills, xml, obj, gen, mk, comp, finished>>
    BY <1>3 DEF EditModule, SourceWritten
  <2>3. commands' \in 0..MaxCommands /\ commands' = commands + 1
    BY <1>i, <2>2, CommandTyped
  <2>4. m \in Module /\ src[m] \in Source /\ src[m].text \in Text /\ src[m].text.ver <= commands
    BY <1>i DEF TypeInv, TypeOK, Module, Source
  <2>5. [src[m].text EXCEPT !.ver = @ + 1] \in Text
    <3>1. src[m].text.ver \in Nat
      BY <2>4 DEF Text, Version
    <3>2. src[m].text.ver + 1 \in Version
      BY SMTT(30), <1>n, <2>3, <2>4, <3>1, DeploymentAssumption DEF Version
    <3> QED  BY <2>4, <3>2 DEF Text
  <2>6. src' \in [Module -> Source]
    BY <1>i, <2>1, <2>5 DEF Source, TypeInv, TypeOK
  <2>7. ASSUME NEW k \in Handwritten PROVE src'[k].text.ver <= commands'
    <3>1. k \in Module /\ src[k].text.ver <= commands'
      BY <1>i, <2>2, CommandsSpent DEF Module
    <3>2. src'[m].text.ver = src[m].text.ver + 1
      BY <1>i, <2>1, <2>4 DEF TypeInv, TypeOK, Text
    <3>3. src'[m].text.ver <= commands'
      BY <1>n, <2>3, <2>4, <3>2 DEF Text, Version
    <3>4. k # m => src'[k] = src[k]
      BY <1>i, <2>1, <3>1 DEF TypeInv, TypeOK
    <3> QED  BY <3>1, <3>3, <3>4
  <2>8. \A g \in {"segments", "bases"} : xml'[g] <= commands' + 1
    BY <1>i, <1>n, <2>2, <2>3, DeploymentAssumption DEF TypeInv, TypeOK, Version
  <2> QED  BY <1>i, <1>n, <2>2, <2>3, <2>6, <2>7, <2>8, TypeFrame, DisturbedTyped DEF TypeInv, TypeOK
<1>4. CASE Generate
  BY <1>4, <1>i, TypeGenerate
<1>5. CASE Make
  BY <1>5, TypeMake
<1>6. ASSUME NEW p \in Compiler, Compile(p) PROVE TypeInv'
  BY <1>6, TypeCompile
<1>7. ASSUME NEW r \in Requests, Serve(r) PROVE TypeInv'
  BY <1>7, TypeServe
<1>8. CASE UNCHANGED vars
  BY <1>8, <1>i DEF vars, TypeInv, TypeOK
<1> QED  BY <1>1, <1>2, <1>3, <1>4, <1>5, <1>6, <1>7, <1>8 DEF Next

LEMMA DeploymentInvariants == Spec => [](RepairInv /\ WaitInv /\ PairInv /\ TypeInv)
<1>1. RepairInv => InTurn
  BY DEF RepairInv
<1>2. RepairInv /\ WaitInv /\ TypeInv /\ [Next]_vars => TypeInv'
  BY <1>1, TypeStep DEF TypedSteps
<1> QED  BY <1>2, RepairInit, RepairStep, WaitInit, WaitStep, PairInit, PairStep, TypeInit, PTL DEF Spec

\* Whatever the modules, requests and bounds, files, compilations and requests
\* are what TypeOK says: above all, who writes an object file compiles its module.
THEOREM DeploymentTypeCorrect == Spec => []TypeOK
<1>1. TypeInv => TypeOK
  BY DEF TypeInv
<1> QED  BY <1>1, DeploymentInvariants, PTL

--------------------------------------------------------------------------------
(* UpdatedSiteAnswersAsOne.  While nothing is written, edited or cleaned   *)
(* the site stays as the request found it: no source is newer than its     *)
(* object file, so make and the engines compile nothing, and every object  *)
(* file loads and says what its source says.                               *)

\* Sources are never of a time to come, and only stems.P is of two versions.
SourcesRest ==
  /\ \A m \in Module : src[m].mtime <= now
  /\ \A m \in Handwritten : src[m].text.part = "whole"
  /\ Segments.seg = Segments.ver
ObjectsFresh ==
  remade # "no" => \A m \in Module : obj[m].exists => src[m].mtime <= obj[m].mtime
CalmRequest(r) ==
  req[r].pc # "idle" /\ req[r].calm =>
    /\ req[r].pc \in {"load", "answered"} /\ req[r].asOne
    /\ req[r].seg = xml.segments /\ Deployed
CalmInv == SourcesRest /\ ObjectsFresh /\ \A r \in Requests : CalmRequest(r)

LEMMA CalmInit == Init => CalmInv
<1> SUFFICES ASSUME Init PROVE CalmInv
  OBVIOUS
<1>1. \A m \in Module : src[m] = [text |-> OldText, mtime |-> 0]
  BY DEF Init
<1>2. "segments" \in Module /\ Handwritten \subseteq Module
  BY DEF Module, Generated
<1>3. SourcesRest
  BY <1>1, <1>2 DEF Init, SourcesRest, Segments, OldText
<1>4. ObjectsFresh /\ \A r \in Requests : CalmRequest(r)
  BY DEF Init, ObjectsFresh, CalmRequest, NoRequest
<1> QED  BY <1>3, <1>4 DEF CalmInv

LEMMA DisturbedNotCalm ==
  ASSUME TypeInv, req' = Disturbed(req)
  PROVE  \A r \in Requests : CalmRequest(r)'
<1> SUFFICES ASSUME NEW r \in Requests, req'[r].pc # "idle" PROVE ~ req'[r].calm
  BY DEF CalmRequest
<1>1. CASE req[r].pc = "idle"
  BY <1>1 DEF Disturbed
<1>2. CASE req[r].pc # "idle"
  <2>1. req[r] \in Request
    BY <1>2 DEF TypeInv, TypeOK, NoRequest
  <2>2. req'[r] = [req[r] EXCEPT !.calm = FALSE]
    BY <1>2 DEF Disturbed
  <2> QED  BY <2>1, <2>2 DEF Request
<1> QED  BY <1>1, <1>2

\* On a deployed site every object file is there, and says what its source says.
LEMMA DeployedLoads ==
  ASSUME RepairInv, PairInv, TypeInv, SourcesRest, Deployed, NEW m \in Module
  PROVE  /\ obj[m].exists /\ obj[m].written /\ obj[m].open = {}
         /\ obj[m].text = src[m].text
<1>1. src[m].text.part # "cut"
  BY DEF Deployed, PairInv, FinishedRunPairs, SourcesRest, Module, Generated
<1>2. \A p \in Compiler : comp[p].stage # "open"
  BY DEF Deployed
<1>3. obj[m].open = {}
  <2>1. obj[m].open \subseteq Compiler
    <3>1. CASE obj[m] = NoFile
      BY <3>1 DEF NoFile
    <3>2. CASE obj[m] \in Object
      BY <3>2 DEF Object
    <3> QED  BY <3>1, <3>2 DEF TypeInv, TypeOK
  <2> QED  BY <1>2, <2>1 DEF TypeInv, TypeOK
<1>4. obj[m].written /\ obj[m].text = src[m].text
  BY <1>1, <1>3, RepairEnough DEF Deployed, CleanMakeRepairs
<1>5. obj[m].exists
  <2>1. obj[m] \in Object
    BY <1>4 DEF TypeInv, TypeOK, NoFile
  <2> QED  BY <2>1 DEF Object
<1> QED  BY <1>3, <1>4, <1>5

\* Neither make nor an engine compiles anything there.
LEMMA DeployedRests ==
  ASSUME RepairInv, PairInv, TypeInv, SourcesRest, ObjectsFresh, Deployed, NEW m \in Module
  PROVE  ~ NeedsCompile(m)
<1>1. obj[m].exists
  BY DeployedLoads
<1>2. src[m].mtime <= obj[m].mtime
  BY <1>1 DEF ObjectsFresh, Deployed
<1>3. src[m].mtime \in Nat
  BY DEF TypeInv, TypeOK, Source
<1>4. obj[m].mtime \in Nat
  <2>1. obj[m] \in Object
    BY <1>1 DEF TypeInv, TypeOK, NoFile
  <2>2. PICK x \in Object : x = obj[m]
    BY <2>1
  <2>3. x.mtime \in 0..MaxTime
    BY DEF Object
  <2> QED  BY <2>2, <2>3
<1> QED  BY <1>1, <1>2, <1>3, <1>4 DEF NeedsCompile

\* Both generated files have the segments of Segments.xml.
LEMMA DeployedAsOne ==
  ASSUME RepairInv, PairInv, TypeInv, SourcesRest, Deployed, NEW m \in Generated
  PROVE  obj[m].text.seg = xml.segments
<1>1. m \in Module
  BY DEF Module
<1>2. obj[m].text = src[m].text
  BY <1>1, DeployedLoads
<1> QED  BY <1>2 DEF Generated, Deployed, PairInv, FinishedRunPairs, SourcesRest, Segments

\* A step that touches neither requests nor what they find.
LEMMA CalmFrame ==
  ASSUME CalmInv, TypeInv, UNCHANGED <<xml, src, obj, req, finished>>, now' >= now, now' \in Nat,
         UNCHANGED remade, Deployed => Deployed'
  PROVE  CalmInv'
<1>1. \A m \in Module : src[m].mtime \in Nat /\ now \in Nat
  BY DEF TypeInv, TypeOK, Source
<1>2. SourcesRest'
  BY <1>1 DEF CalmInv, SourcesRest, Segments
<1> QED  BY <1>2 DEF CalmInv, ObjectsFresh, CalmRequest

\* A source is written: requests under way are disturbed.
LEMMA CalmWrite ==
  ASSUME CalmInv, TypeInv, SourceWritten, UNCHANGED now, SourcesRest'
  PROVE  CalmInv'
BY DisturbedNotCalm DEF SourceWritten, CalmInv, ObjectsFresh

LEMMA WriteRests ==
  ASSUME TypeInv, SourcesRest, NEW m \in Generated, NEW text, Write(m, text), UNCHANGED now,
         m = "segments" => text.seg = text.ver
  PROVE  SourcesRest'
<1>1. m \in Module /\ m \notin Handwritten /\ "segments" \in Module /\ Handwritten \subseteq Module
  BY DeploymentAssumption DEF Module, Generated
<1>2. src' = [src EXCEPT ![m] = [text |-> text, mtime |-> now]] /\ DOMAIN src = Module
  BY DEF Write, TypeInv, TypeOK
<1>3. now \in Nat
  BY DEF TypeInv, TypeOK
<1> QED  BY <1>1, <1>2, <1>3 DEF SourcesRest, Segments

LEMMA CalmGenerate ==
  ASSUME CalmInv, TypeInv, Generate
  PROVE  CalmInv'
<1>m. "stems" \in Generated /\ "segments" \in Generated
  BY DEF Generated
<1>t. /\ now \in Nat
      /\ \A part : SegmentsText(part).seg = SegmentsText(part).ver
  BY DEF TypeInv, TypeOK, SegmentsText
<1>1. CASE GenParse \/ GenKilled
  <2>1. UNCHANGED <<now, xml, src, obj, comp, req, finished, remade>>
    BY <1>1 DEF GenParse, GenKilled
  <2> QED  BY <1>t, <2>1, CalmFrame DEF Deployed
<1>2. CASE ~ (GenParse \/ GenKilled)
  <2>1. PICK pc : GenGoes(pc)
    BY <1>2 DEF Generate, GenOpenStems, GenFlush, GenCloseStems, GenDie, GenOpenSegments, GenCloseSegments
  <2>2. UNCHANGED now /\ SourceWritten
    BY <2>1 DEF GenGoes
  <2>3. UNCHANGED src \/ \E part : Write("stems", StemsText(part)) \/ Write("segments", SegmentsText(part))
    BY <1>2 DEF Generate, GenOpenStems, GenFlush, GenCloseStems, GenDie, GenOpenSegments, GenCloseSegments
  <2>4. CASE UNCHANGED src
    BY <2>2, <2>4, CalmWrite DEF CalmInv, SourcesRest, Segments
  <2>5. ASSUME NEW part, Write("stems", StemsText(part)) \/ Write("segments", SegmentsText(part))
        PROVE  CalmInv'
    <3>1. SourcesRest'
      BY <1>m, <1>t, <2>2, <2>5, WriteRests DEF CalmInv
    <3> QED  BY <2>2, <3>1, CalmWrite
  <2> QED  BY <2>3, <2>4, <2>5
<1> QED  BY <1>1, <1>2

LEMMA CalmMake ==
  ASSUME CalmInv, TypedSteps, RepairInv, PairInv, Make
  PROVE  CalmInv'
<1>i. TypeInv /\ now \in Nat
  BY DEF TypedSteps, TypeInv, TypeOK
<1>1. CASE Clean
  <2>1. obj' = [m \in Module |-> NoFile] /\ req' = Disturbed(req) /\ UNCHANGED <<now, src>>
    BY <1>1 DEF Clean
  <2>2. ObjectsFresh'
    BY <2>1 DEF ObjectsFresh, NoFile
  <2> QED  BY <1>i, <2>1, <2>2, DisturbedNotCalm DEF CalmInv, SourcesRest, Segments
<1>2. CASE MakeStart
  BY <1>2, <1>i, CalmFrame DEF MakeStart, Deployed
<1>3. CASE MakeCompile
  <2>1. NeedsCompile(OBJ[mk]) /\ mk > 0
        /\ UNCHANGED <<now, xml, src, obj, req, finished, remade>>
    BY <1>3 DEF MakeCompile, MakeLooks
  <2>2. OBJ[mk] \in Module
    <3>1. mk \in 0..Len(OBJ)
      BY DEF TypedSteps, InTurn
    <3> QED  BY <2>1, <3>1, ModulesToMake, OnlyModules
  <2>3. ~ Deployed
    BY <1>i, <2>1, <2>2, DeployedRests DEF CalmInv
  <2> QED  BY <1>i, <2>1, <2>3, CalmFrame
<1>4. CASE MakeSkip
  <2>1. remade' = Remade("make") /\ UNCHANGED <<now, xml, src, obj, comp, req, finished>>
    BY <1>4 DEF MakeSkip, Resume
  <2>2. SourcesRest' /\ ObjectsFresh'
    BY <2>1 DEF CalmInv, SourcesRest, Segments, ObjectsFresh, Remade
  <2>3. \A r \in Requests : CalmRequest(r)'
    BY <2>1 DEF CalmInv, CalmRequest, Deployed, Remade
  <2> QED  BY <2>2, <2>3 DEF CalmInv
<1> QED  BY <1>1, <1>2, <1>3, <1>4 DEF Make

\* Nothing is compiled on a deployed site, so a compiler's step ends no calm.
LEMMA CalmCompile ==
  ASSUME CalmInv, TypedSteps, NEW p \in Compiler, Compile(p)
  PROVE  CalmInv'
<1>i. TypeInv /\ now \in Nat /\ DOMAIN obj = Module
      /\ \A m \in Module : src[m].mtime \in Nat /\ src[m].mtime <= now
  BY DEF TypedSteps, TypeInv, TypeOK, CalmInv, SourcesRest, Source
<1>1. ~ Deployed /\ UNCHANGED <<now, src>>
  BY DEF Deployed, Compile, SyntaxError, OpenObject, CloseObject, CompilerKilled
<1>2. SourcesRest'
  BY <1>1 DEF CalmInv, SourcesRest, Segments
<1>3. remade' # "no" => remade # "no"
  BY DEF Compile, SyntaxError, OpenObject, CloseObject, CompilerKilled, Remade
<1>4. ASSUME remade' # "no", NEW m \in Module, obj'[m].exists
      PROVE  src'[m].mtime <= obj'[m].mtime
  <2>1. obj[m].exists => src[m].mtime <= obj[m].mtime
    BY <1>3, <1>4 DEF CalmInv, ObjectsFresh
  <2>2. ~ CompilerKilled(p)
    BY <1>4 DEF CompilerKilled
  <2>3. CASE obj'[m] = obj[m]
    BY <1>1, <1>4, <2>1, <2>3
  <2>4. CASE OpenObject(p) /\ obj'[m] # obj[m]
    <3>1. obj'[m].mtime = now
      BY <1>i, <2>4 DEF OpenObject
    <3> QED  BY <1>1, <1>i, <3>1
  <2>5. CASE CloseObject(p) /\ obj'[m] # obj[m]
    <3>1. m = comp[p].mod /\ p \in obj[m].open
      BY <1>i, <2>5 DEF CloseObject
    <3>2. obj[m] \in Object
      BY <1>i, <3>1 DEF TypeInv, TypeOK, NoFile
    <3>3. PICK w : obj' = [obj EXCEPT ![m].open = obj[m].open \ {p}, ![m].mtime = now, ![m].written = w]
      BY <2>5, <3>1 DEF CloseObject
    <3>4. obj'[m].mtime = now
      BY <1>i, <3>2, <3>3 DEF Object
    <3> QED  BY <1>1, <1>i, <3>4
  <2> QED  BY <2>2, <2>3, <2>4, <2>5 DEF Compile, SyntaxError
<1>5. \A r \in Requests : CalmRequest(r)'
  <2> SUFFICES ASSUME NEW r \in Requests, req'[r].pc # "idle" PROVE ~ req'[r].calm
    BY DEF CalmRequest
  <2>1. CASE req'[r] = req[r]
    BY <1>1, <2>1 DEF CalmInv, CalmRequest
  <2>2. CASE req'[r] # req[r]
    <3>1. PICK failed \in BOOLEAN : Resume(p, failed)
      BY <2>2 DEF Compile, SyntaxError, OpenObject, CloseObject, CompilerKilled
    <3>2. p # "make"
      BY <2>2, <3>1 DEF Resume
    <3>3. p = r /\ \E pc : req' = [req EXCEPT ![r].pc = pc]
      BY <1>i, <2>2, <3>1, <3>2 DEF Resume, TypeInv
    <3>4. comp[p] # NoCompilation
      <4>1. comp[p].stage # "none"
        BY DEF Compile, SyntaxError, OpenObject, CloseObject, CompilerKilled
      <4> QED  BY <4>1 DEF NoCompilation
    <3>5. req[r].pc = "compile" /\ req[r] \in Request
      BY <3>3, <3>4 DEF TypedSteps, WaitInv, TypeInv, TypeOK, NoRequest
    <3>6. ~ req[r].calm
      BY <3>5 DEF CalmInv, CalmRequest
    <3> QED  BY <1>i, <3>3, <3>5, <3>6 DEF Request, TypeInv
  <2> QED  BY <2>1, <2>2
<1> QED  BY <1>2, <1>4, <1>5 DEF CalmInv, ObjectsFresh

LEMMA CalmServe ==
  ASSUME CalmInv, TypedSteps, RepairInv, PairInv, NEW r \in Requests, Serve(r)
  PROVE  CalmInv'
<1>i. TypeInv /\ DOMAIN req = Requests
  BY DEF TypedSteps, TypeInv
<1>u. UNCHANGED <<now, xml, src, obj, finished, remade>>
  BY DEF Serve, RequestStart, LoadObject, LoadUnwritten, LoadCompiles, LoadAgain, LoadFails, Answer, RequestEnd
<1>1. SourcesRest' /\ ObjectsFresh'
  BY <1>u DEF CalmInv, SourcesRest, Segments, ObjectsFresh
<1>2. \A q \in Requests : q # r => req'[q] = req[q]
  BY <1>i DEF Serve, RequestStart, LoadObject, LoadUnwritten, LoadCompiles, LoadAgain, LoadFails, Answer, RequestEnd
<1>w. ASSUME req[r].pc \in {"load", "reconsult", "exec"}, req[r].pc = "load" => req[r].loaded < Len(OBJ)
      PROVE  Wanted(r) \in Module /\ req[r] \in Request
  <2>1. req[r] \in Request
    BY <1>w, <1>i DEF TypeInv, TypeOK, NoRequest
  <2>2. req[r].loaded + 1 \in DOMAIN OBJ
    BY <1>w, <2>1, ModulesToMake DEF Request
  <2> QED  BY <2>1, <2>2, OnlyModules DEF Wanted
<1>c. ASSUME LoadCompiles(r) \/ LoadUnwritten(r) PROVE ~ Deployed
  <2>1. Wanted(r) \in Module
    BY <1>c, <1>w DEF LoadCompiles, LoadUnwritten, Loads
  <2> QED  BY <1>c, <1>i, <2>1, DeployedLoads, DeployedRests DEF CalmInv, LoadCompiles, LoadUnwritten
<1>d. ~ LoadCompiles(r) => UNCHANGED comp
  BY DEF Serve, RequestStart, LoadObject, LoadUnwritten, LoadAgain, LoadFails, Answer, RequestEnd
<1>e. Deployed /\ ~ LoadCompiles(r) => Deployed'
  BY <1>d, <1>u DEF Deployed
<1>3. ASSUME NEW q \in Requests, q # r PROVE CalmRequest(q)'
  BY <1>2, <1>3, <1>c, <1>e, <1>u DEF CalmInv, CalmRequest
<1>4. CalmRequest(r)'
  <2>1. CASE RequestStart(r)
    <3>1. req'[r] = [pc |-> "load", seg |-> xml.segments, loaded |-> 0, asOne |-> TRUE, calm |-> Deployed]
      BY <1>i, <2>1 DEF RequestStart
    <3>2. ~ LoadCompiles(r)
      BY <2>1 DEF RequestStart, LoadCompiles, Loads
    <3> QED  BY <1>e, <1>u, <3>1, <3>2 DEF CalmRequest
  <2>2. CASE LoadObject(r)
    <3>1. PICK b : b = (req[r].asOne /\ (Wanted(r) \in Generated => obj[Wanted(r)].text.seg = req[r].seg))
      OBVIOUS
    <3>2. req'[r] = [req[r] EXCEPT !.pc = "load", !.loaded = @ + 1, !.asOne = b]
      BY <1>i, <2>2, <3>1 DEF LoadObject
    <3>3. req[r].pc # "idle" /\ req[r] \in Request
      BY <2>2, <1>w DEF LoadObject, Loads
    <3>4. /\ req'[r].pc = "load" /\ req'[r].calm = req[r].calm /\ req'[r].seg = req[r].seg
          /\ req'[r].asOne = b
      BY <3>2, <3>3 DEF Request
    <3>5. UNCHANGED comp
      BY <2>2 DEF LoadObject
    <3>6. ASSUME req[r].calm PROVE b /\ Deployed' /\ req[r].seg = xml.segments
      <4>1. req[r].asOne /\ req[r].seg = xml.segments /\ Deployed
        BY <3>3, <3>6 DEF CalmInv, CalmRequest
      <4>2. Wanted(r) \in Generated => obj[Wanted(r)].text.seg = req[r].seg
        BY <1>i, <4>1, DeployedAsOne DEF CalmInv
      <4> QED  BY <1>u, <3>1, <3>5, <4>1, <4>2 DEF Deployed
    <3> QED  BY <1>u, <3>4, <3>6 DEF CalmRequest
  <2>3. CASE LoadUnwritten(r) \/ LoadCompiles(r) \/ LoadAgain(r) \/ LoadFails(r)
    <3>1. PICK pc : req' = [req EXCEPT ![r].pc = pc]
      BY <2>3 DEF LoadUnwritten, LoadCompiles, LoadAgain, LoadFails
    <3>2. req[r].pc \in {"load", "reconsult", "exec"} /\ req[r] \in Request
      BY <2>3, <1>w DEF LoadUnwritten, LoadCompiles, LoadAgain, LoadFails, Loads
    <3>3. ~ req[r].calm
      BY <1>c, <2>3, <3>2 DEF CalmInv, CalmRequest, LoadAgain, LoadFails, LoadCompiles
    <3> QED  BY <1>i, <3>1, <3>2, <3>3 DEF CalmRequest, Request
  <2>4. CASE Answer(r)
    <3>1. req' = [req EXCEPT ![r].pc = "answered"] /\ req[r].pc = "load" /\ UNCHANGED comp
      BY <2>4 DEF Answer
    <3>2. req[r] \in Request
      BY <1>i, <3>1 DEF TypeInv, TypeOK, NoRequest
    <3>3. /\ req'[r].pc = "answered" /\ req'[r].calm = req[r].calm /\ req'[r].seg = req[r].seg
          /\ req'[r].asOne = req[r].asOne
      BY <1>i, <3>1, <3>2 DEF Request
    <3> QED  BY <1>u, <3>1, <3>3 DEF CalmInv, CalmRequest, Deployed
  <2>5. CASE RequestEnd(r)
    BY <1>i, <2>5 DEF RequestEnd, CalmRequest, NoRequest
  <2> QED  BY <2>1, <2>2, <2>3, <2>4, <2>5 DEF Serve
<1> QED  BY <1>1, <1>3, <1>4 DEF CalmInv

LEMMA CalmStep == CalmInv /\ RepairInv /\ WaitInv /\ PairInv /\ TypeInv /\ [Next]_vars => CalmInv'
<1> SUFFICES ASSUME CalmInv, RepairInv, WaitInv, PairInv, TypeInv, [Next]_vars PROVE CalmInv'
  OBVIOUS
<1>t. TypedSteps /\ now \in Nat
  BY DEF TypedSteps, RepairInv, TypeInv, TypeOK
<1>1. CASE Tick \/ UNCHANGED vars
  <2>1. UNCHANGED <<xml, src, obj, comp, req, finished, remade>> /\ now' \in Nat /\ now' >= now
    BY <1>1, <1>t DEF Tick, vars
  <2> QED  BY <2>1, CalmFrame DEF Deployed
<1>2. CASE EditXml
  <2>1. req' = Disturbed(req) /\ UNCHANGED <<now, src, obj, remade>>
    BY <1>2 DEF EditXml
  <2> QED  BY <2>1, DisturbedNotCalm DEF CalmInv, SourcesRest, Segments, ObjectsFresh
<1>3. CASE EditModule
  <2>1. PICK m \in Handwritten : src' = [src EXCEPT ![m] =
          [text |-> [src[m].text EXCEPT !.ver = @ + 1], mtime |-> now]]
    BY <1>3 DEF EditModule
  <2>2. UNCHANGED now /\ SourceWritten
    BY <1>3 DEF EditModule
  <2>3. m \in Module /\ m # "segments" /\ src[m].text \in Text /\ DOMAIN src = Module
        /\ Handwritten \subseteq Module /\ "segments" \in Module
    BY DeploymentAssumption DEF Module, Generated, TypeInv, TypeOK, Source
  <2>4. [src[m].text EXCEPT !.ver = @ + 1].part = src[m].text.part
    BY <2>3 DEF Text
  <2>5. SourcesRest'
    BY <1>t, <2>1, <2>2, <2>3, <2>4 DEF CalmInv, SourcesRest, Segments
  <2> QED  BY <2>2, <2>5, CalmWrite
<1>4. CASE Generate
  BY <1>4, CalmGenerate
<1>5. CASE Make
  BY <1>5, <1>t, CalmMake
<1>6. ASSUME NEW p \in Compiler, Compile(p) PROVE CalmInv'
  BY <1>6, <1>t, CalmCompile
<1>7. ASSUME NEW r \in Requests, Serve(r) PROVE CalmInv'
  BY <1>7, <1>t, CalmServe
<1> QED  BY <1>1, <1>2, <1>3, <1>4, <1>5, <1>6, <1>7 DEF Next

\* A request that comes when an update is finished is answered by one segment
\* list, whatever makes are started and processes killed while it is served.
THEOREM UpdatedSiteAlwaysAnswersAsOne == Spec => []UpdatedSiteAnswersAsOne
<1>1. CalmInv => UpdatedSiteAnswersAsOne
  BY DEF CalmInv, CalmRequest, UpdatedSiteAnswersAsOne
<1> QED  BY <1>1, CalmInit, CalmStep, DeploymentInvariants, PTL DEF Spec
================================================================================
