------------------------------- MODULE Deployment -------------------------------
(***************************************************************************)
(* How the running parser is kept up to date.  compile_bases.pl makes      *)
(* stems.P and segments.P from the XML files; xsb_compile, under make,     *)
(* makes an object file from each .P file it finds newer; parse.s reads    *)
(* Segments.xml itself and starts an engine that loads the object files.   *)
(* All of it happens in the live directory, by hand, while requests come.  *)
(*                                                                         *)
(* What a source says is the version of what it was made from, `ver', with *)
(* `seg', for stems.P, the version of Segments.xml its stems were cut by,  *)
(* and how much of it there is, `part'.  Times are whole seconds, as stat  *)
(* gives them; any number of steps fit in a second.  An edited file is     *)
(* saved in one step.                                                      *)
(* Names beginning with Mut are mistakes no specification uses.            *)
(***************************************************************************)
EXTENDS Naturals, Sequences

CONSTANTS OBJ,         \* the modules the Makefile lists, in its order
          Handwritten, \* those edited by hand; the others are stems and segments
          Requests,    \* the processes that serve requests
          MaxTime,     \* bound on the clock
          MaxCommands, \* bound on what the maintainer does: edits and commands
          MaxKills     \* bound on the processes that are killed

Generated == {"stems", "segments"}
Module == Handwritten \cup Generated

ASSUME DeploymentAssumption ==
  /\ OBJ \in Seq(Module)
  /\ \A m \in Module : \E i \in DOMAIN OBJ : OBJ[i] = m
  /\ \A i, j \in DOMAIN OBJ : OBJ[i] = OBJ[j] => i = j
  /\ Handwritten \cap Generated = {}
  /\ "make" \notin Requests
  /\ MaxTime \in Nat /\ MaxCommands \in Nat /\ MaxKills \in Nat

Compiler == {"make"} \cup Requests

VARIABLES now,     \* the clock
          commands, \* how many edits and commands the maintainer has made
          kills,   \* how many processes were killed
          xml,     \* the versions of Segments.xml and VerbBases.xml
          src,     \* the .P files
          obj,     \* the .xwam files
          gen,     \* compile_bases.pl: where it is, and the segment list it has parsed
          mk,      \* xsb_compile: the position in OBJ it looks at, 0 when it does not run
          comp,    \* the compilation each process has under way
          req,     \* the requests
          finished,  \* history: the last run of compile_bases.pl came to its end
          remade     \* history: "clean" from a make clean on, "made" from the make after it on

vars == <<now, commands, kills, xml, src, obj, gen, mk, comp, req, finished, remade>>

Version == 0..MaxCommands + 1
Text == [ver : Version, seg : Version, part : {"empty", "cut", "whole"}]
Source == [text : Text, mtime : 0..MaxTime]
NoFile == [exists |-> FALSE, written |-> FALSE, open |-> {}, mixed |-> FALSE]
Object == [exists : {TRUE}, written : BOOLEAN, open : SUBSET Compiler, mixed : BOOLEAN,
           text : Text, readAt : 0..MaxTime, mtime : 0..MaxTime]
NoCompilation == [stage |-> "none"]
Compilation == [stage : {"read", "open"}, mod : Module, text : Text, readAt : 0..MaxTime]
NoRequest == [pc |-> "idle"]
\* A request that is in reconsult is at a module.
Request ==
  {q \in [pc : {"load", "reconsult", "compile", "exec", "answered", "failed"}, seg : Version,
          loaded : 0..Len(OBJ), asOne : BOOLEAN, calm : BOOLEAN] :
     q.pc \in {"reconsult", "compile", "exec"} => q.loaded < Len(OBJ)}

TypeOK ==
  /\ now \in 0..MaxTime /\ commands \in 0..MaxCommands /\ kills \in 0..MaxKills
  /\ xml \in [{"segments", "bases"} -> Version]
  /\ src \in [Module -> Source]
  /\ \A m \in Module : obj[m] \in Object \cup {NoFile}
  /\ gen \in [pc : {"idle", "parsed", "stems", "written", "segments"}, seg : Version]
  /\ mk \in 0..Len(OBJ)
  /\ \A p \in Compiler : comp[p] \in Compilation \cup {NoCompilation}
  /\ \A r \in Requests : req[r] \in Request \cup {NoRequest}
  /\ finished \in BOOLEAN /\ remade \in {"no", "clean", "made"}
  \* Who writes an object file compiles that module.
  /\ \A m \in Module : \A p \in obj[m].open : comp[p].stage = "open" /\ comp[p].mod = m

OldText == [ver |-> 0, seg |-> 0, part |-> "whole"]

\* The site as an update left it; Segments.xml has been edited since.
Init ==
  /\ now = 0 /\ commands = 0 /\ kills = 0
  /\ xml = [segments |-> 1, bases |-> 0]
  /\ src = [m \in Module |-> [text |-> OldText, mtime |-> 0]]
  /\ obj = [m \in Module |-> [exists |-> TRUE, written |-> TRUE, open |-> {}, mixed |-> FALSE,
                              text |-> OldText, readAt |-> 0, mtime |-> 0]]
  /\ gen = [pc |-> "idle", seg |-> 0]
  /\ mk = 0
  /\ comp = [p \in Compiler |-> NoCompilation]
  /\ req = [r \in Requests |-> NoRequest]
  /\ finished = TRUE /\ remade = "no"

Command == commands < MaxCommands /\ commands' = commands + 1

Tick ==
  /\ now < MaxTime /\ now' = now + 1
  /\ UNCHANGED <<commands, kills, xml, src, obj, gen, mk, comp, req, finished, remade>>

--------------------------------------------------------------------------------
(* The maintainer edits a file and saves it. *)

\* Requests under way can no longer be held to what they began with.
Disturbed(q) == [r \in Requests |-> IF q[r].pc = "idle" THEN q[r] ELSE [q[r] EXCEPT !.calm = FALSE]]
SourceWritten == remade' = "no" /\ req' = Disturbed(req)

EditXml ==
  /\ Command
  /\ \E f \in {"segments", "bases"} : xml' = [xml EXCEPT ![f] = @ + 1]
  /\ req' = Disturbed(req)
  /\ UNCHANGED <<now, kills, src, obj, gen, mk, comp, finished, remade>>

EditModule ==
  /\ Command
  /\ \E m \in Handwritten : src' = [src EXCEPT ![m] =
       [text |-> [src[m].text EXCEPT !.ver = @ + 1], mtime |-> now]]
  /\ SourceWritten
  /\ UNCHANGED <<now, kills, xml, obj, gen, mk, comp, finished>>

--------------------------------------------------------------------------------
(* compile_bases.pl, started by the maintainer, one run at a time. *)

\* new Segmentizer reads Segments.xml.
GenParse ==
  /\ gen.pc = "idle" /\ Command
  /\ gen' = [pc |-> "parsed", seg |-> xml.segments]
  /\ UNCHANGED <<now, kills, xml, src, obj, mk, comp, req, finished, remade>>

MutWriteKeepsTime(m, text) == src' = [src EXCEPT ![m].text = text]
\* A buffer of text goes to the file.
Write(m, text) == src' = [src EXCEPT ![m] = [text |-> text, mtime |-> now]]
MutStemsByInstalledList(part) == [ver |-> xml.bases, seg |-> src["segments"].text.ver, part |-> part]
StemsText(part) == [ver |-> xml.bases, seg |-> gen.seg, part |-> part]
MutSegmentsReread(part) == [ver |-> xml.segments, seg |-> xml.segments, part |-> part]
SegmentsText(part) == [ver |-> gen.seg, seg |-> gen.seg, part |-> part]
GenGoes(pc) == gen' = [gen EXCEPT !.pc = pc] /\ SourceWritten /\ UNCHANGED <<commands, now, kills, xml, obj, mk, comp>>

\* open OUT, ">$baseOut"
GenOpenStems ==
  /\ gen.pc = "parsed" /\ Write("stems", StemsText("empty"))
  /\ GenGoes("stems") /\ finished' = FALSE

\* outputBases prints more than fits in the buffer.
GenFlush ==
  /\ gen.pc = "stems" /\ Write("stems", StemsText("cut"))
  /\ GenGoes("stems") /\ UNCHANGED finished

\* outputBases returns and OUT is closed.
GenCloseStems ==
  /\ gen.pc = "stems" /\ Write("stems", StemsText("whole"))
  /\ GenGoes("written") /\ UNCHANGED finished

\* parsefile dies before anything is printed, or segmentize at some base; what
\* was printed is flushed.
GenDie ==
  /\ gen.pc = "stems"
  /\ \/ src["stems"].text.part = "empty" /\ UNCHANGED src
     \/ Write("stems", StemsText("cut"))
  /\ GenGoes("idle") /\ UNCHANGED finished

\* open OUT, ">$segOut"
GenOpenSegments ==
  /\ gen.pc = "written" /\ Write("segments", SegmentsText("empty"))
  /\ GenGoes("segments") /\ UNCHANGED finished

\* outputSegments prints the list parsed at the start, and OUT is closed.
GenCloseSegments ==
  /\ gen.pc = "segments" /\ Write("segments", SegmentsText("whole"))
  /\ GenGoes("idle") /\ finished' = TRUE

GenKilled ==
  /\ gen.pc # "idle" /\ kills < MaxKills
  /\ kills' = kills + 1 /\ gen' = [gen EXCEPT !.pc = "idle"]
  /\ UNCHANGED <<commands, now, xml, src, obj, mk, comp, req, finished, remade>>

--------------------------------------------------------------------------------
(* The XSB compiler, run by make or by the engine of a request. *)

\* parse reads the source; the object file is not touched yet.
StartCompile(p, m) ==
  comp' = [comp EXCEPT ![p] = [stage |-> "read", mod |-> m, text |-> src[m].text, readAt |-> now]]
EndCompile(p) == comp' = [comp EXCEPT ![p] = NoCompilation]

\* The command goes on, with the next module or, in reconsult, with load_exec.
Resume(p, failed) ==
  IF p = "make"
    THEN mk' = (IF mk = Len(OBJ) THEN 0 ELSE mk + 1) /\ UNCHANGED req
    ELSE req' = [req EXCEPT ![p].pc = IF failed THEN "failed" ELSE "exec"] /\ UNCHANGED mk

\* The end of the make that followed make clean.
Remade(p) == IF p = "make" /\ mk = Len(OBJ) /\ remade = "clean" THEN "made" ELSE remade

\* abort_if_syntax_errors: a cut source may end in the middle of a clause.
SyntaxError(p) ==
  /\ comp[p].stage = "read" /\ comp[p].text.part = "cut"
  /\ EndCompile(p) /\ Resume(p, TRUE) /\ remade' = Remade(p)
  /\ UNCHANGED <<commands, now, kills, xml, src, obj, gen, finished>>

\* asm_genheader: tell(OFile) creates or truncates the object file.  Of two
\* compilers that have it open each writes over what the other has written.
OpenObject(p) ==
  /\ comp[p].stage = "read"
  /\ LET m == comp[p].mod
         others == obj[m].open
     IN  obj' = [obj EXCEPT ![m] =
           [exists |-> TRUE, written |-> FALSE, open |-> others \cup {p},
            mixed |-> \E q \in others : obj[m].mixed \/ comp[q].text # comp[p].text,
            text |-> comp[p].text, readAt |-> comp[p].readAt, mtime |-> now]]
  /\ comp' = [comp EXCEPT ![p].stage = "open"]
  /\ UNCHANGED <<commands, now, kills, xml, src, gen, mk, req, finished, remade>>

\* myclose(OFile).  A file that make clean removed meanwhile stays removed.
CloseObject(p) ==
  /\ comp[p].stage = "open"
  /\ LET m == comp[p].mod
         others == obj[m].open \ {p}
     IN  obj' = IF p \in obj[m].open
                  THEN [obj EXCEPT ![m].open = others, ![m].mtime = now,
                                   ![m].written = (others = {} /\ ~ obj[m].mixed)]
                  ELSE obj
  /\ EndCompile(p) /\ Resume(p, FALSE) /\ remade' = Remade(p)
  /\ UNCHANGED <<commands, now, kills, xml, src, gen, finished>>

MutKilledKeepsOpen(p) ==
  /\ comp[p].stage # "none" /\ kills < MaxKills
  /\ kills' = kills + 1
  /\ EndCompile(p) /\ Resume(p, TRUE) /\ remade' = "no"
  /\ UNCHANGED <<now, commands, xml, src, obj, gen, finished>>

\* The compiler's process is killed: make's loop goes on, a request fails.
CompilerKilled(p) ==
  /\ comp[p].stage # "none" /\ kills < MaxKills
  /\ kills' = kills + 1
  /\ \E damage \in BOOLEAN :
       LET m == comp[p].mod
       IN  obj' = IF p \in obj[m].open
                    THEN [obj EXCEPT ![m].open = @ \ {p}, ![m].mixed = @ \/ damage]
                    ELSE obj
  /\ EndCompile(p) /\ Resume(p, TRUE) /\ remade' = "no"
  /\ UNCHANGED <<commands, now, xml, src, gen, finished>>

--------------------------------------------------------------------------------
(* make, one run at a time. *)

\* -rm *.xwam.  The history notes it when no compiler is at work.
Clean ==
  /\ mk = 0 /\ Command
  /\ obj' = [m \in Module |-> NoFile]
  /\ remade' = IF \A p \in Compiler : comp[p].stage = "none" THEN "clean" ELSE "no"
  /\ req' = Disturbed(req)
  /\ UNCHANGED <<now, kills, xml, src, gen, mk, comp, finished>>

MakeStart ==
  /\ mk = 0 /\ Command
  /\ mk' = 1
  /\ UNCHANGED <<now, kills, xml, src, obj, gen, comp, req, finished, remade>>

MutNeedsOnlyNewer(m) == obj[m].exists /\ src[m].mtime > obj[m].mtime
\* not -f "$mod.xwam" or (stat "$mod.P")[9] > (stat "$mod.xwam")[9]
NeedsCompile(m) == obj[m].exists => src[m].mtime > obj[m].mtime

MakeLooks == mk > 0 /\ comp["make"].stage = "none"

MakeCompile ==
  /\ MakeLooks /\ NeedsCompile(OBJ[mk])
  /\ StartCompile("make", OBJ[mk])
  /\ UNCHANGED <<commands, now, kills, xml, src, obj, gen, mk, req, finished, remade>>

MakeSkip ==
  /\ MakeLooks /\ ~ NeedsCompile(OBJ[mk])
  /\ Resume("make", FALSE) /\ remade' = Remade("make")
  /\ UNCHANGED <<commands, now, kills, xml, src, obj, gen, comp, finished>>

--------------------------------------------------------------------------------
(* A request: parse.s and the engine it starts. *)

\* new Segmentizer(SEGMENTS_XML).  The history notes whether the site was then as
\* a finished update leaves it.
Deployed ==
  /\ remade = "made" /\ finished
  /\ src["segments"].text.ver = xml.segments /\ src["stems"].text.ver = xml.bases
  /\ \A p \in Compiler : comp[p].stage = "none"

RequestStart(r) ==
  /\ req[r].pc = "idle"
  /\ req' = [req EXCEPT ![r] = [pc |-> "load", seg |-> xml.segments, loaded |-> 0,
                                asOne |-> TRUE, calm |-> Deployed]]
  /\ UNCHANGED <<commands, now, kills, xml, src, obj, gen, mk, comp, finished, remade>>

\* load/1 is called for the module of the next undefined predicate.
Wanted(r) == OBJ[req[r].loaded + 1]
Loads(r) == req[r].pc = "load" /\ req[r].loaded < Len(OBJ)

\* code_load, called by load/1 or by load_exec, reads an object file to its end.
\* The history notes whether its segments are those of the page.
LoadObject(r) ==
  /\ Loads(r) \/ req[r].pc = "exec"
  /\ obj[Wanted(r)].written
  /\ req' = [req EXCEPT ![r].pc = "load", ![r].loaded = @ + 1,
       ![r].asOne = @ /\ (Wanted(r) \in Generated => obj[Wanted(r)].text.seg = req[r].seg)]
  /\ UNCHANGED <<commands, now, kills, xml, src, obj, gen, mk, comp, finished, remade>>

\* load/1 finds no object file, or one that does not load: it calls reconsult.
\* What there is of an unfinished file may load: a predicate is missing, and
\* the query aborts.
LoadUnwritten(r) ==
  /\ Loads(r) /\ ~ obj[Wanted(r)].written
  /\ \/ req' = [req EXCEPT ![r].pc = "reconsult"]
     \/ obj[Wanted(r)].exists /\ req' = [req EXCEPT ![r].pc = "failed"]
  /\ UNCHANGED <<commands, now, kills, xml, src, obj, gen, mk, comp, finished, remade>>

\* i_want_compile: there is no object file, or an older one.
LoadCompiles(r) ==
  /\ req[r].pc = "reconsult" /\ NeedsCompile(Wanted(r))
  /\ StartCompile(r, Wanted(r))
  /\ req' = [req EXCEPT ![r].pc = "compile"]
  /\ UNCHANGED <<commands, now, kills, xml, src, obj, gen, mk, finished, remade>>

\* It wants none.
LoadAgain(r) ==
  /\ req[r].pc = "reconsult" /\ ~ NeedsCompile(Wanted(r))
  /\ req' = [req EXCEPT ![r].pc = "exec"]
  /\ UNCHANGED <<commands, now, kills, xml, src, obj, gen, mk, comp, finished, remade>>

\* load_exec: the object file is gone, or does not load; nothing is tried again.
LoadFails(r) ==
  /\ req[r].pc = "exec" /\ ~ obj[Wanted(r)].written
  /\ req' = [req EXCEPT ![r].pc = "failed"]
  /\ UNCHANGED <<commands, now, kills, xml, src, obj, gen, mk, comp, finished, remade>>

Answer(r) ==
  /\ req[r].pc = "load" /\ req[r].loaded = Len(OBJ)
  /\ req' = [req EXCEPT ![r].pc = "answered"]
  /\ UNCHANGED <<commands, now, kills, xml, src, obj, gen, mk, comp, finished, remade>>

RequestEnd(r) ==
  /\ req[r].pc \in {"answered", "failed"}
  /\ req' = [req EXCEPT ![r] = NoRequest]
  /\ UNCHANGED <<commands, now, kills, xml, src, obj, gen, mk, comp, finished, remade>>

--------------------------------------------------------------------------------
Generate ==
  GenParse \/ GenOpenStems \/ GenFlush \/ GenCloseStems \/ GenDie
  \/ GenOpenSegments \/ GenCloseSegments \/ GenKilled
Compile(p) == SyntaxError(p) \/ OpenObject(p) \/ CloseObject(p) \/ CompilerKilled(p)
Make == Clean \/ MakeStart \/ MakeCompile \/ MakeSkip
Serve(r) ==
  RequestStart(r) \/ LoadObject(r) \/ LoadUnwritten(r) \/ LoadCompiles(r)
  \/ LoadAgain(r) \/ LoadFails(r) \/ Answer(r) \/ RequestEnd(r)

Next ==
  \/ Tick \/ EditXml \/ EditModule \/ Generate \/ Make
  \/ \E p \in Compiler : Compile(p)
  \/ \E r \in Requests : Serve(r)

Spec == Init /\ [][Next]_vars

--------------------------------------------------------------------------------
\* xsb_compile compares times in whole seconds, and the compiler reads the source
\* long before it writes.  Still, an object file is out of date without make's
\* seeing it only if its source was written while it was being compiled or in
\* the same second, or if its writing was cut short or done by two at once.
MakeOverlooksOnlyOverlaps ==
  \A m \in Module : obj[m].exists /\ obj[m].open = {} /\ ~ NeedsCompile(m) =>
    \/ obj[m].written /\ obj[m].text = src[m].text
    \/ obj[m].written /\ obj[m].readAt <= src[m].mtime
    \/ ~ obj[m].written /\ (kills > 0 \/ obj[m].mixed)

\* When compile_bases.pl has come to its end, the stems are cut by the very list
\* that segments.P holds, and both files are whole, whatever runs died before and
\* whatever was edited meanwhile.
FinishedRunPairs ==
  finished => LET stems == src["stems"].text
                  segments == src["segments"].text
              IN  stems.part = "whole" /\ segments.part = "whole" /\ stems.seg = segments.ver

\* make clean and make, with nothing written, killed or compiled across them,
\* mend every object file, however it was spoilt, although requests may compile
\* and write the same files at the same time.
CleanMakeRepairs ==
  remade = "made" =>
    \A m \in Module : src[m].text.part # "cut" /\ obj[m].open = {} =>
      obj[m].written /\ obj[m].text = src[m].text

\* A request that comes after a finished update is answered, and the segments of
\* the page, of the rules and of the stems are of one list.
UpdatedSiteAnswersAsOne ==
  \A r \in Requests : req[r].pc \in {"answered", "failed"} /\ req[r].calm =>
    req[r].pc = "answered" /\ req[r].asOne
================================================================================
