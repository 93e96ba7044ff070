-------------------------- MODULE CompilerSession --------------------------
(***************************************************************************)
(* One AWGCompiler used for a sequence of programs: AWGCompilerImpl        *)
(* (codegen/awg_compiler.cpp), the Compiler pipeline it owns               *)
(* (codegen/compiler.cpp), its message collection                          *)
(* (core/compiler_message.cpp), the assembler                              *)
(* (codegen/awg_assembler_impl_pipeline.cpp) and the parts of              *)
(* CustomFunctions that outlive a program.                                 *)
(*                                                                         *)
(* Programs are numbered by the call that compiles them, and every piece   *)
(* of data is the number of the program it was computed from; 0 is "null"  *)
(* or "empty".  What a step does to its data is left to the modules of the *)
(* passes: here a step succeeds, reports, or throws, and the question is   *)
(* whose data each member holds afterwards.                                *)
(*                                                                         *)
(* The check of the device type that opens both inner steps is left out:   *)
(* the constructor has already thrown for a device without constants.      *)
(***************************************************************************)
EXTENDS Integers, FiniteSets

CONSTANTS
  Texts,        \* what a message says, and of which line
  MaxCompiles   \* bound: compile calls on one AWGCompiler

ASSUME SessionAssumption == MaxCompiles \in Nat

VARIABLES
  pc,         \* the step the call in progress takes next
  mode,       \* which call it is
  gen,        \* the number of its program
  outer,      \* members of AWGCompilerImpl
  inner,      \* members of Compiler
  asm,        \* members of AWGAssemblerImpl
  functions,  \* members of CustomFunctions that no step resets
  last,       \* how the last call ended
  written     \* the last file written

vars == <<pc, mode, gen, outer, inner, asm, functions, last, written>>

Program == 0 .. MaxCompiles
Step == {"idle", "parse", "ast", "lower", "preamble", "optPre", "prefetch",
         "optPost", "project", "listing", "assemble", "limits", "crashed"}

\* compileString or compileFile, stepInnerCompile alone (seqcc --to=asm),
\* the front end alone (--to=asm-pre), stepInnerCompileFromAsmList.
Mode == {"compile", "inner", "pre", "fromAsm"}

\* "warning" is every severity below an error.
Message == [of : Program, text : Texts, type : {"error", "warning"}]

\* What a step reports of each text, in the order it does: "both" is an error
\* after a message of a lower severity.
Reports == [Texts -> {"none", "warning", "error", "both"}]

Family == {"dio", "zsync"}

Outer == [source : Program, file : Program, code : Program, ir : Program,
          text : Program, msgs : SUBSET Message]

\* raised is history: the texts of the errors raised since the last reset.
Inner == [syntax : BOOLEAN, hadError : BOOLEAN, msgs : SUBSET Message, raised : SUBSET Texts,
          lines : Program, expr : Program, seqc : Program, lowered : Program,
          resources : Program, main : BOOLEAN, placeholder : Program, ast : Program,
          code : Program, ir : Program, optimizer : Program,
          channels : Program, rate : Program]

Assembler == [opcodes : Program, rejected : BOOLEAN, msgs : SUBSET Program]

Functions == [trigger : Family \cup {"none"}]

Cause == {"none", "file", "syntax", "reported", "optimize", "thrown",
          "assembler", "limit"}
Last == [status : {"none", "ok", "failed"}, cause : Cause]

Written == [kind : {"none", "elf", "listing"}, code : Program, source : Program,
            text : Program, of : Program, by : Mode, after : {"none", "ok", "failed"}]

Nothing == [kind |-> "none", code |-> 0, source |-> 0, text |-> 0, of |-> 0,
            by |-> "compile", after |-> "none"]

Init ==
  /\ pc = "idle" /\ mode = "compile" /\ gen = 0
  /\ outer = [source |-> 0, file |-> 0, code |-> 0, ir |-> 0, text |-> 0, msgs |-> {}]
  /\ inner = [syntax |-> FALSE, hadError |-> FALSE, msgs |-> {}, raised |-> {}, lines |-> 0,
              expr |-> 0, seqc |-> 0, lowered |-> 0, resources |-> 0,
              main |-> FALSE, placeholder |-> 0, ast |-> 0, code |-> 0, ir |-> 0,
              optimizer |-> 0, channels |-> 0, rate |-> 0]
  /\ asm = [opcodes |-> 0, rejected |-> FALSE, msgs |-> {}]
  /\ functions = [trigger |-> "none"]
  /\ last = [status |-> "none", cause |-> "none"]
  /\ written = Nothing

----------------------------------------------------------------------------
(* Messages and the two ways a call ends.                                  *)

Errors(said) == {t \in Texts : said[t] \in {"error", "both"}}

\* compilerMessage drops a message whose line and text are there already, under
\* whatever severity: only the first is kept.
Kept(c, said) ==
  {t \in Texts : said[t] # "none" /\ \A m \in c.msgs : m.text # t}

\* Mutant: an error whose text is there already is dropped with its flag.
ReportedIfKept(c, said) ==
  [c EXCEPT !.msgs = @ \cup {[of |-> gen, text |-> t,
                             type |-> IF said[t] = "error" THEN "error" ELSE "warning"] :
                            t \in Kept(c, said)},
            !.hadError = @ \/ \E t \in Kept(c, said) : said[t] = "error",
            !.raised = @ \cup Errors(said)]

\* infoMessage, warningMessage and errorMessage: an error sticks, kept or not.
Reported(c, said) ==
  [c EXCEPT !.msgs = @ \cup {[of |-> gen, text |-> t,
                             type |-> IF said[t] = "error" THEN "error" ELSE "warning"] :
                            t \in Kept(c, said)},
            !.hadError = @ \/ Errors(said) # {},
            !.raised = @ \cup Errors(said)]

\* parserMessage: an error that does not set hadError_ (there is no other message yet).
ParserReported(c, text) ==
  [c EXCEPT !.msgs = @ \cup {[of |-> gen, text |-> text, type |-> "error"]},
            !.raised = @ \cup {text}]

\* Mutant: the results of the previous lowering stay.
ClearedButLowered(c) ==
  [c EXCEPT !.msgs = {}, !.hadError = FALSE, !.raised = {}, !.expr = 0, !.seqc = 0,
            !.resources = 0, !.main = FALSE, !.placeholder = 0, !.ir = 0, !.optimizer = 0]

\* Compiler::reset, and the opening of stepParse.
Cleared(c) ==
  [c EXCEPT !.msgs = {}, !.hadError = FALSE, !.raised = {}, !.expr = 0, !.seqc = 0,
            !.lowered = 0, !.resources = 0, !.main = FALSE, !.placeholder = 0, !.ir = 0, !.optimizer = 0]

\* Mutant: the exception path keeps the messages of the pipeline to itself.
CaughtSilently(c) == outer

\* The catch block of the inner steps; the seqcc driver's asm-pre path has none.
Caught(c) ==
  IF mode = "pre" THEN outer ELSE [outer EXCEPT !.msgs = @ \cup c.msgs]

Ends(status, cause) ==
  pc' = "idle" /\ last' = [status |-> status, cause |-> cause]

Fail(c, cause) ==
  /\ inner' = c /\ outer' = Caught(c)
  /\ Ends("failed", cause)
  /\ UNCHANGED <<mode, gen, asm, written>>

Advance(step, c) ==
  /\ pc' = step /\ inner' = c
  /\ UNCHANGED <<mode, gen, outer, asm, last, written>>

----------------------------------------------------------------------------
(* The calls.                                                              *)

NewProgram == gen' = gen + 1 /\ UNCHANGED functions

\* Mutant: the message list of the last call is not emptied.
TakenWithMessages(file) ==
  outer' = [outer EXCEPT !.source = gen + 1, !.file = file, !.ir = 0, !.code = 0]

\* Opening of stepInnerCompile and stepInnerCompileFromAsmList.
Taken(file) ==
  outer' = [outer EXCEPT !.source = gen + 1, !.file = file, !.msgs = {},
                         !.ir = 0, !.code = 0]

CanCall == pc = "idle" /\ gen < MaxCompiles

CompileString ==
  /\ CanCall /\ NewProgram /\ Taken(outer.file)
  /\ mode' = "compile" /\ pc' = "parse"
  /\ UNCHANGED <<inner, asm, last, written>>

CompileFile ==
  /\ CanCall /\ NewProgram /\ Taken(gen + 1)
  /\ mode' = "compile" /\ pc' = "parse"
  /\ UNCHANGED <<inner, asm, last, written>>

CompileMissingFile ==
  /\ CanCall
  /\ Ends("failed", "file")
  /\ UNCHANGED <<mode, gen, outer, inner, asm, functions, written>>

InnerCompile ==
  /\ CanCall /\ NewProgram /\ Taken(outer.file)
  /\ mode' = "inner" /\ pc' = "parse"
  /\ UNCHANGED <<inner, asm, last, written>>

FrontEndOnly ==
  /\ CanCall /\ NewProgram
  /\ inner' = Cleared(inner)
  /\ mode' = "pre" /\ pc' = "parse"
  /\ UNCHANGED <<outer, asm, last, written>>

CompileFromAsm ==
  /\ CanCall /\ NewProgram /\ Taken(outer.file)
  /\ inner' = [Cleared(inner) EXCEPT !.resources = gen + 1, !.code = gen + 1,
                                     !.placeholder = gen + 1]
  /\ mode' = "fromAsm" /\ pc' = "prefetch"
  /\ UNCHANGED <<asm, last, written>>

----------------------------------------------------------------------------
(* The pipeline.                                                           *)

\* Mutant: the parser context is not reset.
ParserContextKept(c) == c

\* SeqcParserContext::reset.
ParserContext(c) == [c EXCEPT !.syntax = FALSE]

ParseFails ==
  /\ pc = "parse"
  /\ \E text \in Texts :
       Fail([ParserReported(ParserContext(Cleared(inner)), text) EXCEPT !.syntax = TRUE], "syntax")
  /\ UNCHANGED functions

\* No expression: an empty result with a fresh WavetableIR.
ParseEmpty ==
  /\ pc = "parse"
  /\ LET c == [ParserContext(Cleared(inner)) EXCEPT !.lines = gen, !.ir = gen]
     IN IF mode = "pre"
        THEN /\ inner' = c /\ Ends("ok", "none")
             /\ UNCHANGED <<mode, gen, outer, asm, written>>
        ELSE /\ pc' = "listing" /\ inner' = c
             /\ outer' = [outer EXCEPT !.ir = gen]
             /\ UNCHANGED <<mode, gen, asm, last, written>>
  /\ UNCHANGED functions

Parse ==
  /\ pc = "parse"
  /\ Advance("ast", [ParserContext(Cleared(inner)) EXCEPT !.lines = gen, !.expr = gen])
  /\ UNCHANGED functions

\* toSeqCAst gives null for an expression of unknown type.
ToSeqCAst ==
  /\ pc = "ast"
  /\ \E seqc \in {0, gen} :
       Advance("lower", [inner EXCEPT !.resources = gen, !.main = FALSE, !.seqc = seqc])
  /\ UNCHANGED functions

\* A family other than the latched one is called.
Conflicts(used) ==
  Cardinality(used \cup (IF functions.trigger = "none" THEN {} ELSE {functions.trigger})) > 1

\* checkExternalTriggeringMode: the first family called latches.
Latched(used) ==
  IF functions.trigger = "none" THEN used ELSE {functions.trigger}

\* The builtins a program evaluates, and what they leave in CustomFunctions (the
\* node list, which only grows, is left out).
CallBuiltins(used) ==
  \E t \in IF Latched(used) = {} THEN {"none"} ELSE Latched(used) :
    functions' = [trigger |-> t]

\* stepLower, from its error check on.
Lowered(c) ==
  IF c.hadError THEN Fail(c, "reported") ELSE Advance("preamble", c)

Lower ==
  /\ pc = "lower"
  /\ IF inner.seqc = 0
     THEN Lowered(inner) /\ UNCHANGED functions
     ELSE \E used \in SUBSET Family, main \in BOOLEAN, said \in Reports :
            /\ Conflicts(used) => Errors(said) # {}
            /\ CallBuiltins(used)
            /\ Lowered([Reported(inner, said) EXCEPT !.ast = gen, !.lowered = gen, !.main = main])

\* An exception the evaluator does not turn into a message.
LowerThrows ==
  /\ pc = "lower" /\ inner.seqc # 0
  /\ \E used \in SUBSET Family, said \in Reports :
       /\ Conflicts(used) => Errors(said) # {}
       /\ CallBuiltins(used)
       /\ Fail(Reported(inner, said), "thrown")

\* Mutant: the tree is grafted whenever there is one.
GraftedAny(c) == IF c.ast # 0 THEN c.ast ELSE gen

\* The program whose tree hangs under the new root node: ast_, which outlives
\* a compile, only if this program's resources know a main function.
Grafted(c) == IF c.main /\ c.ast # 0 THEN c.ast ELSE gen

BuildAsmPreamble ==
  /\ pc = "preamble"
  /\ Advance("optPre", [inner EXCEPT !.placeholder = gen, !.code = gen, !.ast = Grafted(inner)])
  /\ UNCHANGED functions

OptPre ==
  /\ pc = "optPre"
  /\ LET c == [inner EXCEPT !.optimizer = gen, !.ir = gen]
     IN IF mode = "pre"
        THEN /\ inner' = c /\ Ends("ok", "none")
             /\ UNCHANGED <<mode, gen, outer, asm, written>>
        ELSE Advance("prefetch", c)
  /\ UNCHANGED functions

\* Mutant: the catch of OptimizeException only rethrows.
OptimizeCaughtSilently(c, text) == c

\* catch (OptimizeException): the message is reported, the exception goes on.
\* stepOptPre has the handler too, though no pass it runs throws one today.
OptimizeCaught(c, text) ==
  Reported(c, [t \in Texts |-> IF t = text THEN "error" ELSE "none"])

OptPreFails ==
  /\ pc = "optPre"
  /\ LET c == [inner EXCEPT !.optimizer = gen]
     IN (\E text \in Texts : Fail(OptimizeCaught(c, text), "optimize")) \/ Fail(c, "thrown")
  /\ UNCHANGED functions

Prefetch ==
  /\ pc = "prefetch" /\ inner.ir # 0
  /\ \E said \in {r \in Reports : Errors(r) = {}} :
       Advance("optPost", [Reported(inner, said) EXCEPT !.channels = gen])
  /\ UNCHANGED functions

PrefetchThrows ==
  /\ pc = "prefetch"
  /\ Fail(inner, "thrown")
  /\ UNCHANGED functions

\* runPrefetcher calls a member of a null WavetableIR.
PrefetchCrashes ==
  /\ pc = "prefetch" /\ inner.ir = 0
  /\ pc' = "crashed"
  /\ UNCHANGED <<mode, gen, outer, inner, asm, functions, last, written>>

\* reportUserMessages: the program's own messages and errors.
OptPost ==
  /\ pc = "optPost"
  /\ \E said \in Reports : Advance("project", Reported(inner, said))
  /\ UNCHANGED functions

OptPostFails ==
  /\ pc = "optPost"
  /\ \/ \E text \in Texts : Fail(OptimizeCaught(inner, text), "optimize")
     \/ Fail(inner, "thrown")
  /\ UNCHANGED functions

\* Mutant: no check when the list is projected.
ProjectableAlways(c) == TRUE

\* stepProject's final check.
Projectable(c) == ~c.hadError

\* stepUnsyncCervino and stepProject.
Project ==
  /\ pc = "project"
  /\ IF Projectable(inner)
     THEN /\ inner' = [inner EXCEPT !.rate = gen]
          /\ outer' = [outer EXCEPT !.code = inner.code, !.ir = inner.ir]
          /\ pc' = "listing"
          /\ UNCHANGED <<mode, gen, asm, last, written>>
     ELSE Fail(inner, "reported")
  /\ UNCHANGED functions

\* Mutant: the listing keeps the text it had when the list is empty.
ListedIfAny(code) == IF code = 0 THEN outer.text ELSE code

\* The assembler text built from the list.
Listed(code) == code

\* The messages appended to compileMessages_ on success.
PassedOn == inner.msgs

Listing ==
  /\ pc = "listing"
  /\ outer' = [outer EXCEPT !.text = Listed(outer.code), !.msgs = @ \cup PassedOn]
  /\ IF mode = "compile"
     THEN pc' = "assemble" /\ UNCHANGED last
     ELSE Ends("ok", "none")
  /\ UNCHANGED <<mode, gen, inner, asm, functions, written>>

----------------------------------------------------------------------------
(* The back end.                                                           *)

\* Mutant: an empty list leaves the opcodes alone.
AssembledIfAny(code) == IF code = 0 THEN asm.opcodes ELSE code

\* assembleExpressions: the opcodes are always replaced.
Assembled(code) == code

Assemble ==
  /\ pc = "assemble"
  /\ asm' = [asm EXCEPT !.opcodes = Assembled(outer.code), !.rejected = FALSE]
  /\ pc' = "limits"
  /\ UNCHANGED <<mode, gen, outer, inner, functions, last, written>>

\* errorMessage flags a syntax error, noticed when all opcodes are stored.
AssembleFails ==
  /\ pc = "assemble" /\ outer.code # 0
  /\ asm' = [opcodes |-> outer.code, rejected |-> TRUE, msgs |-> asm.msgs \cup {gen}]
  /\ Ends("failed", "assembler")
  /\ UNCHANGED <<mode, gen, outer, inner, functions, written>>

CheckLimits ==
  /\ pc = "limits"
  /\ Ends("ok", "none")
  /\ UNCHANGED <<mode, gen, outer, inner, asm, functions, written>>

\* Too many opcodes, or too many waveforms: a message of no line, never dropped.
OverLimit ==
  /\ pc = "limits" /\ (asm.opcodes # 0 \/ outer.ir # 0)
  /\ \E text \in Texts :
       outer' = [outer EXCEPT !.msgs = @ \cup {[of |-> gen, text |-> text, type |-> "error"]}]
  /\ Ends("failed", "limit")
  /\ UNCHANGED <<mode, gen, inner, asm, functions, written>>

----------------------------------------------------------------------------
(* Output.  With a syntax error both writers return silently; without      *)
(* opcodes writeToStream throws and without text the listing is skipped.   *)

WriteElf ==
  /\ pc = "idle" /\ ~inner.syntax /\ asm.opcodes # 0
  /\ written' = [kind |-> "elf", code |-> asm.opcodes, source |-> outer.source,
                 text |-> outer.text, of |-> gen, by |-> mode, after |-> last.status]
  /\ UNCHANGED <<pc, mode, gen, outer, inner, asm, functions, last>>

WriteListing ==
  /\ pc = "idle" /\ ~inner.syntax /\ outer.text # 0
  /\ written' = [Nothing EXCEPT !.kind = "listing", !.text = outer.text, !.of = gen, !.by = mode]
  /\ UNCHANGED <<pc, mode, gen, outer, inner, asm, functions, last>>

Call == \/ CompileString \/ CompileFile \/ CompileMissingFile \/ InnerCompile
        \/ FrontEndOnly \/ CompileFromAsm

Pipeline ==
  \/ ParseFails \/ ParseEmpty \/ Parse \/ ToSeqCAst \/ Lower \/ LowerThrows
  \/ BuildAsmPreamble \/ OptPre \/ OptPreFails
  \/ Prefetch \/ PrefetchThrows \/ PrefetchCrashes \/ OptPost \/ OptPostFails
  \/ Project \/ Listing \/ Assemble \/ AssembleFails \/ CheckLimits \/ OverLimit

Next == Call \/ Pipeline \/ WriteElf \/ WriteListing

Spec == Init /\ [][Next]_vars

----------------------------------------------------------------------------
(* Properties.                                                             *)

\* Every member stays in its type, and no data is from a program to come.
TypeOK ==
  /\ pc \in Step /\ mode \in Mode /\ gen \in Program
  /\ outer \in Outer /\ inner \in Inner /\ asm \in Assembler
  /\ functions \in Functions /\ last \in Last /\ written \in Written

\* Each step of the pipeline works on its own program's data only, although
\* the members it reads outlive the call: Compiler::reset and stepParse clear
\* what the steps of an abandoned compile left.
FreshInputs ==
  /\ pc = "ast" => inner.expr = gen
  /\ pc = "lower" => inner.resources = gen /\ inner.seqc \in {0, gen}
  /\ pc \in {"lower", "preamble", "optPre", "prefetch"} => inner.lowered \in {0, gen}
  /\ pc \in {"optPre", "prefetch"} => inner.code = gen /\ inner.placeholder = gen
  /\ pc \in {"optPost", "project"} =>
       /\ inner.code = gen /\ inner.optimizer = gen
       /\ inner.ir = gen /\ inner.ast = gen
  /\ pc \in {"listing", "assemble", "limits"} => outer.code \in {0, gen} /\ outer.ir = gen

\* A compile that returns normally leaves either no opcodes at all (an empty
\* program) or opcodes, listing and line map of its own program.
ReturnIsCoherent ==
  pc = "idle" /\ mode = "compile" /\ last.status = "ok" =>
    /\ outer.source = gen /\ outer.ir = gen /\ outer.text = asm.opcodes
    /\ ~inner.syntax /\ ~asm.rejected
    /\ asm.opcodes \in {0, gen}
    /\ asm.opcodes = gen => inner.code = gen /\ inner.channels = gen /\ inner.rate = gen

\* All sections of an image written after such a compile come from the program
\* compiled last: writeToStream checks only for a syntax error and for opcodes.
\* (After a compile that failed they need not.)
SuccessIsCoherent ==
  /\ ReturnIsCoherent
  /\ written.kind = "elf" /\ written.by = "compile" /\ written.after = "ok" =>
       /\ written.code = written.of /\ written.source = written.of
       /\ written.text = written.of

\* An error raised for the program never ends in a normal return, not even one
\* whose text was dropped: hadError_ is set and looked at late enough.  (The
\* front end alone is another matter: seqcc's asm-pre path stops before the
\* final check.)
NoSilentError ==
  pc = "idle" /\ mode # "pre" /\ last.status = "ok" =>
    /\ inner.raised = {} /\ ~inner.hadError
    /\ \A m \in outer.msgs : m.type # "error"

\* The messages of a compile are those of its own program.
OwnDiagnostics ==
  mode # "pre" => \A m \in outer.msgs : m.of = gen

\* The report explains a compile that failed: it has only messages of its own
\* program, and the text of every error raised is among them, because the
\* exception path copies the pipeline's messages before it rethrows.  (The text,
\* not the severity: an error that repeats the text of an info on its line is
\* only there as that info.)  A failure that is not an exception of the
\* evaluator or of a pass has raised one.
FailureIsExplained ==
  /\ OwnDiagnostics
  /\ pc = "idle" /\ mode # "pre" /\ last.cause \in {"syntax", "reported", "optimize", "thrown"} =>
       /\ \A t \in inner.raised : \E m \in outer.msgs : m.text = t
       /\ last.cause # "thrown" => inner.raised # {}
  /\ pc = "idle" /\ last.cause = "limit" => \E m \in outer.msgs : m.type = "error"
  /\ pc = "idle" /\ last.cause = "assembler" => gen \in asm.msgs
=============================================================================
