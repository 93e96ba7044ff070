----------------------- MODULE CompilerSessionProofs -----------------------
(***************************************************************************)
(* Proofs about CompilerSession for every number of compile calls.         *)
(***************************************************************************)
EXTENDS CompilerSession, TLAPS

----------------------------------------------------------------------------
(* What the operators on the members of Compiler give, field by field.     *)

\* Compiler::reset leaves typed members, no message and no data of a program,
\* apart from the members it does not touch.
LEMMA ClearedFields ==
  ASSUME NEW c \in Inner
  PROVE  LET d == Cleared(c) IN
         /\ d \in Inner
         /\ d.msgs = {} /\ d.hadError = FALSE /\ d.raised = {} /\ d.lowered = 0 /\ d.main = FALSE
         /\ d.ir = 0 /\ d.seqc = 0 /\ d.resources = 0
         /\ d.syntax = c.syntax /\ d.ast = c.ast /\ d.code = c.code
<1>1. 0 \in Program
  BY SessionAssumption DEF Program
<1>2. {} \in SUBSET Message /\ FALSE \in BOOLEAN
  OBVIOUS
<1>3. Cleared(c) \in Inner
  BY <1>1, <1>2 DEF Cleared, Inner
<1> QED
  BY <1>3 DEF Cleared, Inner

\* Reporting adds messages of this program and only ever raises the flag; the
\* text of every error raised is among the messages then.
LEMMA ReportedFields ==
  ASSUME NEW c \in Inner, gen \in Program, NEW said \in Reports
  PROVE  LET d == Reported(c, said) IN
         /\ d \in Inner
         /\ \A m \in d.msgs : m \in c.msgs \/ m.of = gen
         /\ \A m \in d.msgs : m \in c.msgs \/ (m.type = "error" => m.text \in Errors(said))
         /\ c.msgs \subseteq d.msgs
         /\ \A t \in Errors(said) : \E m \in d.msgs : m.text = t
         /\ d.hadError = (c.hadError \/ Errors(said) # {})
         /\ d.raised = c.raised \cup Errors(said)
         /\ d.syntax = c.syntax /\ d.lines = c.lines /\ d.expr = c.expr
         /\ d.seqc = c.seqc /\ d.lowered = c.lowered /\ d.resources = c.resources
         /\ d.main = c.main /\ d.placeholder = c.placeholder /\ d.ast = c.ast
         /\ d.code = c.code /\ d.ir = c.ir /\ d.optimizer = c.optimizer
         /\ d.channels = c.channels /\ d.rate = c.rate
<1> DEFINE Entry(t) == [of |-> gen, text |-> t, type |-> IF said[t] = "error" THEN "error" ELSE "warning"]
           New == {Entry(t) : t \in Kept(c, said)}
           d == Reported(c, said)
<1>1. \A t \in Texts : Entry(t) \in Message
  BY DEF Message
<1>2. New \in SUBSET Message
  BY <1>1 DEF Kept
<1>3. Errors(said) \in SUBSET Texts /\ (c.hadError \/ Errors(said) # {}) \in BOOLEAN
  BY DEF Errors
<1>4. c.msgs \cup New \in SUBSET Message /\ c.raised \cup Errors(said) \in SUBSET Texts
  BY <1>2, <1>3 DEF Inner
<1>5. d = [c EXCEPT !.msgs = c.msgs \cup New, !.hadError = c.hadError \/ Errors(said) # {},
                    !.raised = c.raised \cup Errors(said)]
  BY DEF Reported
<1>6. \A m \in New : m.of = gen /\ (m.type = "error" => m.text \in Errors(said))
  BY DEF Kept, Errors
<1>7. ASSUME NEW t \in Errors(said) PROVE \E m \in c.msgs \cup New : m.text = t
  <2>1. t \in Texts /\ said[t] # "none"
    BY DEF Errors
  <2>2. CASE t \in Kept(c, said)
    <3>1. Entry(t) \in New /\ Entry(t).text = t
      BY <2>2
    <3> QED BY <3>1
  <2>3. CASE t \notin Kept(c, said)
    BY <2>1, <2>3 DEF Kept
  <2> QED BY <2>2, <2>3
<1> HIDE DEF New, d
<1>8. /\ d \in Inner /\ d.msgs = c.msgs \cup New
      /\ d.hadError = (c.hadError \/ Errors(said) # {})
      /\ d.raised = c.raised \cup Errors(said)
      /\ d.syntax = c.syntax /\ d.lines = c.lines /\ d.expr = c.expr
      /\ d.seqc = c.seqc /\ d.lowered = c.lowered /\ d.resources = c.resources
      /\ d.main = c.main /\ d.placeholder = c.placeholder /\ d.ast = c.ast
      /\ d.code = c.code /\ d.ir = c.ir /\ d.optimizer = c.optimizer
      /\ d.channels = c.channels /\ d.rate = c.rate
  BY <1>3, <1>4, <1>5 DEF Inner
<1> QED
  BY <1>6, <1>7, <1>8 DEF d

\* The parser's error does not raise the flag.
LEMMA ParserReportedFields ==
  ASSUME NEW c \in Inner, gen \in Program, NEW text \in Texts
  PROVE  LET d == [ParserReported(c, text) EXCEPT !.syntax = TRUE] IN
         /\ d \in Inner
         /\ d.msgs = c.msgs \cup {[of |-> gen, text |-> text, type |-> "error"]}
         /\ d.raised = c.raised \cup {text}
<1>1. [of |-> gen, text |-> text, type |-> "error"] \in Message
  BY DEF Message
<1>2. c.raised \cup {text} \in SUBSET Texts
  BY DEF Inner
<1> QED
  BY <1>1, <1>2 DEF ParserReported, Inner

----------------------------------------------------------------------------
(* Type correctness.                                                       *)

LEMMA ZeroProgram == 0 \in Program
BY SessionAssumption DEF Program

\* A failed call leaves typed members, whatever the inner compiler reported.
LEMMA FailTyped ==
  ASSUME TypeOK, NEW c \in Inner, NEW cause \in Cause, Fail(c, cause),
         functions' \in Functions
  PROVE  TypeOK'
<1>1. Caught(c) \in Outer
  <2>1. outer.msgs \cup c.msgs \in SUBSET Message
    BY DEF TypeOK, Outer, Inner
  <2> QED
    BY <2>1 DEF Caught, TypeOK, Outer
<1> QED
  BY <1>1 DEF Fail, Ends, TypeOK, Step, Last

\* So does a step of the pipeline.
LEMMA AdvanceTyped ==
  ASSUME TypeOK, NEW c \in Inner, NEW step \in Step, Advance(step, c),
         functions' \in Functions
  PROVE  TypeOK'
BY DEF Advance, TypeOK

LEMMA BuiltinsTyped ==
  ASSUME TypeOK, NEW used \in SUBSET Family, CallBuiltins(used)
  PROVE  functions' \in Functions
<1>1. PICK t \in IF Latched(used) = {} THEN {"none"} ELSE Latched(used) :
        functions' = [trigger |-> t]
  BY DEF CallBuiltins
<1>2. t \in Family \cup {"none"}
  BY DEF Latched, TypeOK, Functions
<1> QED
  BY <1>1, <1>2 DEF Functions

LEMMA LoweredTyped ==
  ASSUME TypeOK, NEW c \in Inner, Lowered(c), functions' \in Functions
  PROVE  TypeOK'
BY FailTyped, AdvanceTyped DEF Lowered, Cause, Step

\* The opening of a call.
LEMMA NewCallTyped ==
  ASSUME TypeOK, CanCall, NewProgram
  PROVE  /\ gen' \in Program /\ gen + 1 \in Program
         /\ functions' \in Functions
         /\ \A file \in Program : Taken(file) => outer' \in Outer
<1>1. gen + 1 \in Program
  BY SessionAssumption DEF TypeOK, CanCall, Program
<1>2. functions' \in Functions
  BY DEF NewProgram, TypeOK, Functions
<1>3. ASSUME NEW file \in Program, Taken(file)
      PROVE  outer' \in Outer
  BY <1>1, <1>3, ZeroProgram DEF Taken, TypeOK, Outer
<1> QED
  BY <1>1, <1>2, <1>3 DEF NewProgram

LEMMA InitTyped == Init => TypeOK
<1> SUFFICES ASSUME Init PROVE TypeOK
  OBVIOUS
<1> USE ZeroProgram
<1>1. outer \in Outer
  BY DEF Init, Outer
<1>2. inner \in Inner
  BY DEF Init, Inner
<1>3. asm \in Assembler /\ functions \in Functions /\ last \in Last
  BY DEF Init, Assembler, Functions, Last, Cause
<1>4. written \in Written
  BY DEF Init, Written, Nothing, Mode
<1> QED
  BY <1>1, <1>2, <1>3, <1>4 DEF Init, TypeOK, Step, Mode

\* A step of the program typed members take to typed members.
LEMMA CallTyped == TypeOK /\ Call => TypeOK'
<1> SUFFICES ASSUME TypeOK, Call PROVE TypeOK'
  OBVIOUS
<1>1. ASSUME CompileString \/ CompileFile \/ InnerCompile
      PROVE  TypeOK'
  <2>1. outer.file \in Program
    BY DEF TypeOK, Outer
  <2>2. gen' \in Program /\ functions' \in Functions /\ outer' \in Outer
    BY <1>1, <2>1, NewCallTyped DEF CompileString, CompileFile, InnerCompile
  <2>3. mode' \in Mode /\ pc' \in Step /\ UNCHANGED <<inner, asm, last, written>>
    BY <1>1 DEF CompileString, CompileFile, InnerCompile, Mode, Step
  <2> QED
    BY <2>2, <2>3 DEF TypeOK
<1>2. ASSUME CompileMissingFile
      PROVE  TypeOK'
  BY <1>2 DEF CompileMissingFile, Ends, TypeOK, Step, Last, Cause
<1>3. ASSUME FrontEndOnly
      PROVE  TypeOK'
  <2>1. gen' \in Program /\ functions' \in Functions
    BY <1>3, NewCallTyped DEF FrontEndOnly
  <2>2. inner' \in Inner
    BY <1>3, ClearedFields DEF FrontEndOnly, TypeOK
  <2> QED
    BY <1>3, <2>1, <2>2 DEF FrontEndOnly, TypeOK, Mode, Step
<1>4. ASSUME CompileFromAsm
      PROVE  TypeOK'
  <2>1. outer.file \in Program
    BY DEF TypeOK, Outer
  <2>2. /\ gen' \in Program /\ functions' \in Functions /\ outer' \in Outer
        /\ gen + 1 \in Program
    BY <1>4, <2>1, NewCallTyped DEF CompileFromAsm
  <2>3. Cleared(inner) \in Inner
    BY ClearedFields DEF TypeOK
  <2>4. inner' \in Inner
    BY <1>4, <2>2, <2>3 DEF CompileFromAsm, Inner
  <2> QED
    BY <1>4, <2>2, <2>4 DEF CompileFromAsm, TypeOK, Mode, Step
<1> QED
  BY <1>1, <1>2, <1>3, <1>4 DEF Call

\* What stepParse starts from.
LEMMA ParserContextFields ==
  ASSUME NEW c \in Inner
  PROVE  LET d == ParserContext(Cleared(c)) IN
         /\ d \in Inner /\ ~d.syntax
         /\ d.msgs = {} /\ d.hadError = FALSE /\ d.raised = {} /\ d.lowered = 0 /\ d.main = FALSE
BY ClearedFields DEF ParserContext, Inner

LEMMA OptimizeCaughtTyped ==
  ASSUME gen \in Program, NEW c \in Inner, NEW text \in Texts
  PROVE  OptimizeCaught(c, text) \in Inner
BY ReportedFields DEF OptimizeCaught, Reports

LEMMA FrontTyped ==
  ASSUME TypeOK,
         ParseFails \/ ParseEmpty \/ Parse \/ ToSeqCAst \/ Lower \/ LowerThrows \/ BuildAsmPreamble
  PROVE  TypeOK'
<1>1. gen \in Program /\ inner \in Inner /\ functions \in Functions /\ outer \in Outer
  BY DEF TypeOK
<1> DEFINE d == ParserContext(Cleared(inner))
<1>2. d \in Inner
  BY <1>1, ParserContextFields
<1>3. CASE ParseFails
  <2>1. PICK text \in Texts : Fail([ParserReported(d, text) EXCEPT !.syntax = TRUE], "syntax")
    BY <1>3 DEF ParseFails
  <2>2. [ParserReported(d, text) EXCEPT !.syntax = TRUE] \in Inner
    BY <1>1, <1>2, ParserReportedFields
  <2> QED
    BY <1>1, <1>3, <2>1, <2>2, FailTyped DEF ParseFails, Cause
<1>4. CASE ParseEmpty
  <2>1. [d EXCEPT !.lines = gen, !.ir = gen] \in Inner
    BY <1>1, <1>2 DEF Inner
  <2>2. inner' \in Inner
    BY <1>4, <2>1 DEF ParseEmpty
  <2>3. [outer EXCEPT !.ir = gen] \in Outer
    BY <1>1 DEF Outer
  <2>4. outer' \in Outer /\ pc' \in Step /\ last' \in Last
    BY <1>1, <1>4, <2>3 DEF ParseEmpty, Ends, TypeOK, Step, Last, Cause
  <2>5. UNCHANGED <<mode, gen, asm, functions, written>>
    BY <1>4 DEF ParseEmpty
  <2> QED
    BY <2>2, <2>4, <2>5 DEF TypeOK
<1>5. CASE Parse
  <2>1. [d EXCEPT !.lines = gen, !.expr = gen] \in Inner
    BY <1>1, <1>2 DEF Inner
  <2> QED
    BY <1>1, <1>5, <2>1, AdvanceTyped DEF Parse, Step
<1>6. CASE ToSeqCAst
  <2>1. PICK seqc \in {0, gen} :
          Advance("lower", [inner EXCEPT !.resources = gen, !.main = FALSE, !.seqc = seqc])
    BY <1>6 DEF ToSeqCAst
  <2>2. [inner EXCEPT !.resources = gen, !.main = FALSE, !.seqc = seqc] \in Inner
    BY <1>1, ZeroProgram DEF Inner
  <2> QED
    BY <1>1, <1>6, <2>1, <2>2, AdvanceTyped DEF ToSeqCAst, Step
<1>7. CASE Lower
  <2>1. CASE inner.seqc = 0
    BY <1>1, <1>7, <2>1, LoweredTyped DEF Lower
  <2>2. CASE inner.seqc # 0
    <3> DEFINE Rest(said, main) ==
                 Lowered([Reported(inner, said) EXCEPT !.ast = gen, !.lowered = gen, !.main = main])
    <3>1. PICK used \in SUBSET Family, main \in BOOLEAN, said \in Reports :
            CallBuiltins(used) /\ Rest(said, main)
      BY <1>7, <2>2 DEF Lower
    <3> DEFINE c == Reported(inner, said)
    <3>2. c \in Inner
      BY <1>1, ReportedFields
    <3>3. [c EXCEPT !.ast = gen, !.lowered = gen, !.main = main] \in Inner
      BY <1>1, <3>2 DEF Inner
    <3> QED
      BY <3>1, <3>3, BuiltinsTyped, LoweredTyped
  <2> QED
    BY <2>1, <2>2
<1>8. CASE LowerThrows
  <2>1. PICK used \in SUBSET Family, said \in Reports :
          CallBuiltins(used) /\ Fail(Reported(inner, said), "thrown")
    BY <1>8 DEF LowerThrows
  <2>2. Reported(inner, said) \in Inner
    BY <1>1, ReportedFields
  <2> QED
    BY <2>1, <2>2, BuiltinsTyped, FailTyped DEF Cause
<1>9. CASE BuildAsmPreamble
  <2>1. Grafted(inner) \in Program
    BY <1>1 DEF Grafted, Inner
  <2>2. [inner EXCEPT !.placeholder = gen, !.code = gen, !.ast = Grafted(inner)] \in Inner
    BY <1>1, <2>1 DEF Inner
  <2> QED
    BY <1>1, <1>9, <2>2, AdvanceTyped DEF BuildAsmPreamble, Step
<1> QED
  BY <1>3, <1>4, <1>5, <1>6, <1>7, <1>8, <1>9

LEMMA BackTyped ==
  ASSUME TypeOK,
         OptPre \/ OptPreFails \/ Prefetch \/ PrefetchThrows \/ PrefetchCrashes
         \/ OptPost \/ OptPostFails \/ Project
  PROVE  TypeOK'
<1>1. gen \in Program /\ inner \in Inner /\ functions \in Functions /\ outer \in Outer
  BY DEF TypeOK
<1>2. CASE OptPre
  <2> DEFINE c == [inner EXCEPT !.optimizer = gen, !.ir = gen]
  <2>1. c \in Inner
    BY <1>1 DEF Inner
  <2>2. CASE mode = "pre"
    BY <1>1, <1>2, <2>1, <2>2 DEF OptPre, Ends, TypeOK, Step, Last, Cause
  <2>3. CASE mode # "pre"
    BY <1>1, <1>2, <2>1, <2>3, AdvanceTyped DEF OptPre, Step
  <2> QED
    BY <2>2, <2>3
<1>3. CASE OptPreFails
  <2> DEFINE c == [inner EXCEPT !.optimizer = gen]
  <2>1. c \in Inner
    BY <1>1 DEF Inner
  <2>2. \A text \in Texts : OptimizeCaught(c, text) \in Inner
    BY <1>1, <2>1, OptimizeCaughtTyped
  <2>3. /\ functions' \in Functions
        /\ (\E text \in Texts : Fail(OptimizeCaught(c, text), "optimize")) \/ Fail(c, "thrown")
    BY <1>1, <1>3 DEF OptPreFails
  <2> QED
    BY <2>1, <2>2, <2>3, FailTyped DEF Cause
<1>4. CASE Prefetch
  <2>1. PICK said \in Reports : Advance("optPost", [Reported(inner, said) EXCEPT !.channels = gen])
    BY <1>4 DEF Prefetch
  <2>2. Reported(inner, said) \in Inner
    BY <1>1, ReportedFields
  <2>3. [Reported(inner, said) EXCEPT !.channels = gen] \in Inner
    BY <1>1, <2>2 DEF Inner
  <2> QED
    BY <1>1, <1>4, <2>1, <2>3, AdvanceTyped DEF Prefetch, Step
<1>5. CASE PrefetchThrows
  BY <1>1, <1>5, FailTyped DEF PrefetchThrows, Cause
<1>6. CASE PrefetchCrashes
  BY <1>6 DEF PrefetchCrashes, TypeOK, Step
<1>7. CASE OptPost
  <2>1. PICK said \in Reports : Advance("project", Reported(inner, said))
    BY <1>7 DEF OptPost
  <2>2. Reported(inner, said) \in Inner
    BY <1>1, ReportedFields
  <2> QED
    BY <1>1, <1>7, <2>1, <2>2, AdvanceTyped DEF OptPost, Step
<1>8. CASE OptPostFails
  BY <1>1, <1>8, OptimizeCaughtTyped, FailTyped DEF OptPostFails, Cause
<1>9. CASE Project
  <2>1. CASE Projectable(inner)
    <3>1. [inner EXCEPT !.rate = gen] \in Inner
      BY <1>1 DEF Inner
    <3>2. [outer EXCEPT !.code = inner.code, !.ir = inner.ir] \in Outer
      BY <1>1 DEF Inner, Outer
    <3> QED
      BY <1>9, <2>1, <3>1, <3>2 DEF Project, TypeOK, Step
  <2>2. CASE ~Projectable(inner)
    BY <1>1, <1>9, <2>2, FailTyped DEF Project, Cause
  <2> QED
    BY <2>1, <2>2
<1> QED
  BY <1>2, <1>3, <1>4, <1>5, <1>6, <1>7, <1>8, <1>9

LEMMA OutputTyped ==
  ASSUME TypeOK,
         Listing \/ Assemble \/ AssembleFails \/ CheckLimits \/ OverLimit
         \/ WriteElf \/ WriteListing
  PROVE  TypeOK'
<1>1. gen \in Program /\ inner \in Inner /\ outer \in Outer /\ asm \in Assembler
  BY DEF TypeOK
<1>2. CASE Listing
  <2>1. outer.msgs \cup PassedOn \in SUBSET Message
    BY <1>1 DEF PassedOn, Outer, Inner
  <2>2. [outer EXCEPT !.text = Listed(outer.code), !.msgs = @ \cup PassedOn] \in Outer
    BY <1>1, <2>1 DEF Listed, Outer
  <2> QED
    BY <1>2, <2>2 DEF Listing, Ends, TypeOK, Step, Last, Cause
<1>3. CASE Assemble
  <2>1. [asm EXCEPT !.opcodes = Assembled(outer.code), !.rejected = FALSE] \in Assembler
    BY <1>1 DEF Assembled, Outer, Assembler
  <2> QED
    BY <1>3, <2>1 DEF Assemble, TypeOK, Step
<1>4. CASE AssembleFails
  <2>1. asm' \in Assembler
    BY <1>1, <1>4 DEF AssembleFails, Outer, Assembler
  <2> QED
    BY <1>4, <2>1 DEF AssembleFails, Ends, TypeOK, Step, Last, Cause
<1>5. CASE CheckLimits
  BY <1>5 DEF CheckLimits, Ends, TypeOK, Step, Last, Cause
<1>6. CASE OverLimit
  <2>0. PICK text \in Texts :
          outer' = [outer EXCEPT !.msgs = @ \cup {[of |-> gen, text |-> text, type |-> "error"]}]
    BY <1>6 DEF OverLimit
  <2>1. outer.msgs \cup {[of |-> gen, text |-> text, type |-> "error"]} \in SUBSET Message
    BY <1>1 DEF Outer, Message
  <2>2. outer' \in Outer
    BY <1>1, <2>0, <2>1 DEF Outer
  <2> QED
    BY <1>6, <2>2 DEF OverLimit, Ends, TypeOK, Step, Last, Cause
<1>7. CASE WriteElf
  <2>1. written' \in Written
    BY <1>1, <1>7 DEF WriteElf, TypeOK, Outer, Assembler, Written, Last
  <2> QED
    BY <1>7, <2>1 DEF WriteElf, TypeOK
<1>8. CASE WriteListing
  <2>1. written' \in Written
    BY <1>1, <1>8, ZeroProgram DEF WriteListing, TypeOK, Outer, Written, Nothing
  <2> QED
    BY <1>8, <2>1 DEF WriteListing, TypeOK
<1> QED
  BY <1>2, <1>3, <1>4, <1>5, <1>6, <1>7, <1>8

LEMMA StepTyped == TypeOK /\ [Next]_vars => TypeOK'
<1> SUFFICES ASSUME TypeOK, [Next]_vars PROVE TypeOK'
  OBVIOUS
<1>1. CASE UNCHANGED vars
  BY <1>1 DEF vars, TypeOK
<1>2. CASE Next
  BY <1>2, CallTyped, FrontTyped, BackTyped, OutputTyped DEF Next, Pipeline
<1> QED
  BY <1>1, <1>2

\* Whatever is called in whatever order, every member keeps its type.
THEOREM TypeCorrect == Spec => []TypeOK
<1> QED
  BY InitTyped, StepTyped, PTL DEF Spec

----------------------------------------------------------------------------
(* The inductive invariant.  A member is read long after the call that set *)
(* it, so what each step will read has to be known at every step before.   *)

Working == pc \notin {"idle", "parse", "crashed"}

\* Which steps a call of each kind goes through.
Modes ==
  /\ pc # "idle" => gen # 0
  /\ mode = "fromAsm" => pc \in {"prefetch", "idle", "crashed"}
  /\ mode = "pre" => pc \in {"parse", "ast", "lower", "preamble", "optPre", "idle"}
  /\ mode = "inner" => pc \notin {"assemble", "limits"}

\* The pipeline's messages are its program's, agree with the flag, and hold the
\* text of every error.
InnerMessages ==
  Working =>
    /\ \A m \in inner.msgs : m.of = gen
    /\ \A m \in inner.msgs : m.type = "error" => inner.hadError
    /\ inner.hadError <=> inner.raised # {}
    /\ \A t \in inner.raised : \E m \in inner.msgs : m.text = t

\* The caller's report is empty until the listing, and then the pipeline's.
OuterMessages ==
  mode # "pre" =>
    /\ outer.source = gen
    /\ \A m \in outer.msgs : m.of = gen
    /\ pc \notin {"idle", "crashed", "assemble", "limits"} => outer.msgs = {}
    /\ pc \notin {"idle", "crashed", "listing", "assemble", "limits"} => outer.code = 0
    /\ pc \in {"assemble", "limits"} => outer.msgs = inner.msgs

FrontStages ==
  /\ Working /\ mode # "fromAsm" => ~inner.syntax
  /\ pc = "ast" => inner.expr = gen /\ inner.lowered = 0
  /\ pc = "lower" => inner.resources = gen /\ inner.seqc \in {0, gen} /\ inner.lowered = 0 /\ ~inner.main
  /\ pc = "preamble" => inner.lowered \in {0, gen} /\ (inner.main => inner.ast = gen)
  /\ pc = "optPre" =>
       inner.lowered \in {0, gen} /\ inner.code = gen /\ inner.placeholder = gen /\ inner.ast = gen

BackStages ==
  /\ pc = "prefetch" =>
       /\ inner.lowered \in {0, gen} /\ inner.code = gen /\ inner.placeholder = gen
       /\ mode = "fromAsm" => inner.ir = 0
       /\ mode # "fromAsm" => inner.ir = gen /\ inner.optimizer = gen /\ inner.ast = gen
  /\ pc \in {"optPost", "project"} =>
       /\ inner.code = gen /\ inner.optimizer = gen /\ inner.ir = gen
       /\ inner.ast = gen /\ inner.channels = gen
  /\ pc \in {"listing", "assemble", "limits"} =>
       /\ ~inner.hadError /\ inner.raised = {} /\ outer.ir = gen /\ outer.code \in {0, gen}
       /\ outer.code = gen => inner.code = gen /\ inner.channels = gen /\ inner.rate = gen
  /\ pc \in {"assemble", "limits"} => outer.text = outer.code
  /\ pc = "limits" => asm.opcodes = outer.code /\ ~asm.rejected

\* What FailureIsExplained says besides OwnDiagnostics.
Explained ==
  /\ pc = "idle" /\ mode # "pre" /\ last.cause \in {"syntax", "reported", "optimize", "thrown"} =>
       /\ \A t \in inner.raised : \E m \in outer.msgs : m.text = t
       /\ last.cause # "thrown" => inner.raised # {}
  /\ pc = "idle" /\ last.cause = "limit" => \E m \in outer.msgs : m.type = "error"
  /\ pc = "idle" /\ last.cause = "assembler" => gen \in asm.msgs

SessionInv ==
  /\ TypeOK /\ Modes /\ InnerMessages /\ OuterMessages /\ FrontStages /\ BackStages
  /\ ReturnIsCoherent /\ NoSilentError /\ Explained

----------------------------------------------------------------------------
(* Calls.                                                                  *)

LEMMA InitInv == Init => SessionInv
<1> SUFFICES ASSUME Init PROVE SessionInv
  OBVIOUS
<1>1. TypeOK
  BY InitTyped
<1> QED
  BY <1>1 DEF Init, SessionInv, Modes, InnerMessages, OuterMessages, FrontStages,
     BackStages, Working, ReturnIsCoherent, NoSilentError, Explained

LEMMA OpeningKeeps ==
  ASSUME SessionInv, TypeOK',
         CompileString \/ CompileFile \/ InnerCompile \/ FrontEndOnly
  PROVE  SessionInv'
<1>1. pc' = "parse" /\ mode' \in {"compile", "inner", "pre"} /\ gen' = gen + 1
  BY DEF CompileString, CompileFile, InnerCompile, FrontEndOnly, NewProgram
<1>5. gen' # 0
  BY <1>1 DEF SessionInv, TypeOK, Program
<1>2. mode' # "pre" => outer'.source = gen' /\ outer'.msgs = {} /\ outer'.code = 0
  <2>1. SUFFICES ASSUME CompileString \/ CompileFile \/ InnerCompile
                 PROVE  outer'.source = gen' /\ outer'.msgs = {} /\ outer'.code = 0
    BY DEF FrontEndOnly
  <2>2. \E file : Taken(file) /\ gen' = gen + 1
    BY <2>1 DEF CompileString, CompileFile, InnerCompile, NewProgram
  <2> QED
    BY <2>2 DEF Taken, SessionInv, TypeOK, Outer
<1> QED
  BY <1>1, <1>5, <1>2 DEF SessionInv, Modes, InnerMessages, OuterMessages, FrontStages,
     BackStages, Working, ReturnIsCoherent, NoSilentError, Explained

LEMMA MissingFileKeeps ==
  ASSUME SessionInv, TypeOK', CompileMissingFile
  PROVE  SessionInv'
<1>1. /\ pc = "idle" /\ pc' = "idle" /\ last'.status = "failed" /\ last'.cause = "file"
      /\ UNCHANGED <<mode, gen, outer, inner, asm>>
  BY DEF CompileMissingFile, CanCall, Ends
<1> QED
  BY <1>1 DEF SessionInv, Modes, InnerMessages, OuterMessages, FrontStages,
     BackStages, Working, ReturnIsCoherent, NoSilentError, Explained

LEMMA FromAsmKeeps ==
  ASSUME SessionInv, TypeOK', CompileFromAsm
  PROVE  SessionInv'
<1>1. pc' = "prefetch" /\ mode' = "fromAsm" /\ gen' = gen + 1
  BY DEF CompileFromAsm, NewProgram
<1>5. gen' # 0
  BY <1>1 DEF SessionInv, TypeOK, Program
<1>2. outer'.source = gen' /\ outer'.msgs = {} /\ outer'.code = 0
  BY <1>1 DEF CompileFromAsm, Taken, SessionInv, TypeOK, Outer
<1>3. LET d == Cleared(inner) IN
      d \in Inner /\ d.msgs = {} /\ d.hadError = FALSE /\ d.raised = {} /\ d.lowered = 0 /\ d.ir = 0
  BY ClearedFields DEF SessionInv, TypeOK
<1>4. /\ inner'.msgs = {} /\ inner'.hadError = FALSE /\ inner'.raised = {} /\ inner'.lowered = 0 /\ inner'.ir = 0
      /\ inner'.code = gen' /\ inner'.placeholder = gen'
  BY <1>1, <1>3 DEF CompileFromAsm, Inner
<1> QED
  BY <1>1, <1>5, <1>2, <1>4 DEF SessionInv, Modes, InnerMessages, OuterMessages, FrontStages,
     BackStages, Working, ReturnIsCoherent, NoSilentError, Explained

----------------------------------------------------------------------------
(* The two ways a step of the pipeline ends.                               *)

Running == pc \notin {"idle", "crashed", "assemble", "limits", "listing"}

\* A step that fails with messages of its own program, among them the text of
\* every error raised, keeps the invariant.
LEMMA FailKeeps ==
  ASSUME SessionInv, TypeOK', Running, NEW c \in Inner,
         NEW cause \in {"syntax", "reported", "optimize", "thrown"}, Fail(c, cause),
         \A m \in c.msgs : m.of = gen,
         \A t \in c.raised : \E m \in c.msgs : m.text = t,
         cause # "thrown" => c.raised # {}
  PROVE  SessionInv'
<1>1. /\ pc' = "idle" /\ last'.status = "failed" /\ last'.cause = cause
      /\ inner' = c /\ outer' = Caught(c)
      /\ UNCHANGED <<mode, gen, asm, written>>
  BY DEF Fail, Ends
<1>2. mode # "pre" => outer'.msgs = c.msgs /\ outer'.source = gen
  BY <1>1 DEF Running, SessionInv, OuterMessages, Caught, TypeOK, Outer
<1> QED
  BY <1>1, <1>2 DEF SessionInv, Modes, InnerMessages, OuterMessages, FrontStages,
     BackStages, Working, ReturnIsCoherent, NoSilentError, Explained

\* Messages of this program, in step with the flag.
Agree(c) ==
  /\ \A m \in c.msgs : m.of = gen
  /\ \A m \in c.msgs : m.type = "error" => c.hadError
  /\ c.hadError <=> c.raised # {}
  /\ \A t \in c.raised : \E m \in c.msgs : m.text = t

LEMMA ReportedAgrees ==
  ASSUME gen \in Program, NEW c \in Inner, Agree(c), NEW said \in Reports
  PROVE  Agree(Reported(c, said))
<1> DEFINE d == Reported(c, said)
<1>1. /\ \A m \in d.msgs : m \in c.msgs \/ m.of = gen
      /\ \A m \in d.msgs : m \in c.msgs \/ (m.type = "error" => m.text \in Errors(said))
      /\ c.msgs \subseteq d.msgs
      /\ \A t \in Errors(said) : \E m \in d.msgs : m.text = t
      /\ d.hadError = (c.hadError \/ Errors(said) # {})
      /\ d.raised = c.raised \cup Errors(said)
  BY ReportedFields
<1>2. c.hadError \in BOOLEAN
  BY DEF Inner
<1> HIDE DEF d
<1>3. \A m \in d.msgs : m.of = gen
  BY <1>1 DEF Agree
<1>4. ASSUME NEW m \in d.msgs, m.type = "error" PROVE d.hadError
  <2>1. m \in c.msgs \/ Errors(said) # {}
    BY <1>1, <1>4
  <2>2. m \in c.msgs => c.hadError
    BY <1>4 DEF Agree
  <2> QED
    BY <1>1, <1>2, <2>1, <2>2
<1>5. d.hadError <=> d.raised # {}
  BY <1>1, <1>2 DEF Agree
<1>6. \A t \in d.raised : \E m \in d.msgs : m.text = t
  BY <1>1 DEF Agree
<1> QED
  BY <1>3, <1>4, <1>5, <1>6 DEF Agree, d

LEMMA OptimizeCaughtExplains ==
  ASSUME gen \in Program, NEW c \in Inner, Agree(c), NEW text \in Texts
  PROVE  /\ OptimizeCaught(c, text) \in Inner
         /\ Agree(OptimizeCaught(c, text))
         /\ OptimizeCaught(c, text).raised # {}
<1> DEFINE said == [t \in Texts |-> IF t = text THEN "error" ELSE "none"]
<1>1. said \in Reports /\ text \in Errors(said)
  BY DEF Reports, Errors
<1> HIDE DEF said
<1>2. Agree(Reported(c, said)) /\ Reported(c, said) \in Inner /\ text \in Reported(c, said).raised
  BY <1>1, ReportedAgrees, ReportedFields
<1> QED
  BY <1>2 DEF OptimizeCaught, said

\* A step that goes on to the next one keeps what is said of messages and
\* modes; what it establishes for that step is proved with it.
LEMMA AdvanceKeeps ==
  ASSUME SessionInv, TypeOK', Running, NEW c \in Inner, Agree(c),
         NEW step \in Step \ {"idle", "crashed", "assemble", "limits", "listing"},
         Advance(step, c), mode # "fromAsm", mode = "pre" => step \in {"ast", "lower", "preamble", "optPre"},
         FrontStages', BackStages'
  PROVE  SessionInv'
<1>1. /\ pc' = step /\ inner' = c
      /\ UNCHANGED <<mode, gen, outer, asm, last, written>>
  BY DEF Advance
<1> QED
  BY <1>1 DEF Running, Agree, SessionInv, Modes, InnerMessages, OuterMessages, Working,
     ReturnIsCoherent, NoSilentError, Explained

LEMMA WorkingAgrees ==
  ASSUME SessionInv, Working
  PROVE  Agree(inner)
BY DEF SessionInv, InnerMessages, Agree

----------------------------------------------------------------------------
(* The steps of the pipeline.                                              *)

LEMMA ParseFailsKeeps ==
  ASSUME SessionInv, TypeOK', ParseFails
  PROVE  SessionInv'
<1> DEFINE d == ParserContext(Cleared(inner))
<1>1. inner \in Inner /\ gen \in Program
  BY DEF SessionInv, TypeOK
<1>2. d \in Inner /\ d.msgs = {} /\ d.raised = {}
  BY <1>1, ParserContextFields
<1>5. PICK text \in Texts : Fail([ParserReported(d, text) EXCEPT !.syntax = TRUE], "syntax")
  BY DEF ParseFails
<1> DEFINE c == [ParserReported(d, text) EXCEPT !.syntax = TRUE]
<1>3. /\ c \in Inner /\ c.msgs = {[of |-> gen, text |-> text, type |-> "error"]}
      /\ c.raised = {text}
  BY <1>1, <1>2, ParserReportedFields
<1>4. Fail(c, "syntax") /\ Running
  BY <1>5 DEF ParseFails, Running
<1> HIDE DEF c
<1>6. (\A m \in c.msgs : m.of = gen) /\ (\A t \in c.raised : \E m \in c.msgs : m.text = t)
  BY <1>3
<1>7. c.raised # {}
  BY <1>3
<1> QED
  BY <1>3, <1>4, <1>6, <1>7, FailKeeps

LEMMA ParseEmptyKeeps ==
  ASSUME SessionInv, TypeOK', ParseEmpty
  PROVE  SessionInv'
<1> DEFINE d == ParserContext(Cleared(inner))
           c == [d EXCEPT !.lines = gen, !.ir = gen]
<1>1. inner \in Inner /\ gen \in Program /\ outer \in Outer
  BY DEF SessionInv, TypeOK
<1>2. d \in Inner /\ ~d.syntax /\ d.msgs = {} /\ d.raised = {} /\ d.hadError = FALSE
  BY <1>1, ParserContextFields
<1> HIDE DEF d
<1>3. c.msgs = {} /\ c.raised = {} /\ c.hadError = FALSE /\ ~c.syntax
  BY <1>2 DEF Inner
<1> HIDE DEF c
<1>4. CASE mode = "pre"
  <2>1. /\ pc' = "idle" /\ inner' = c /\ last'.status = "ok" /\ last'.cause = "none"
        /\ UNCHANGED <<mode, gen, outer, asm, written>>
    BY <1>4 DEF ParseEmpty, Ends, c, d
  <2> QED
    BY <1>4, <2>1 DEF SessionInv, Modes, InnerMessages, OuterMessages, FrontStages,
       BackStages, Working, ReturnIsCoherent, NoSilentError, Explained
<1>5. CASE mode # "pre"
  <2>1. /\ pc = "parse" /\ pc' = "listing" /\ inner' = c /\ outer' = [outer EXCEPT !.ir = gen]
        /\ UNCHANGED <<mode, gen, asm, last, written>>
    BY <1>5 DEF ParseEmpty, c, d
  <2>2. /\ outer'.ir = gen /\ outer'.code = outer.code /\ outer'.msgs = outer.msgs
        /\ outer'.source = outer.source
    BY <1>1, <2>1 DEF Outer
  <2>3. outer.code = 0
    BY <1>5, <2>1 DEF SessionInv, OuterMessages
  <2> QED
    BY <1>3, <1>5, <2>1, <2>2, <2>3 DEF SessionInv, Modes, InnerMessages, OuterMessages, FrontStages,
       BackStages, Working, ReturnIsCoherent, NoSilentError, Explained
<1> QED
  BY <1>4, <1>5

LEMMA ParseKeeps ==
  ASSUME SessionInv, TypeOK', Parse
  PROVE  SessionInv'
<1> DEFINE d == ParserContext(Cleared(inner))
           c == [d EXCEPT !.lines = gen, !.expr = gen]
<1>1. inner \in Inner /\ gen \in Program
  BY DEF SessionInv, TypeOK
<1>2. d \in Inner /\ ~d.syntax /\ d.msgs = {} /\ d.raised = {} /\ d.hadError = FALSE /\ d.lowered = 0
  BY <1>1, ParserContextFields
<1>3. Advance("ast", c) /\ pc = "parse"
  BY DEF Parse
<1> HIDE DEF d
<1>4. c \in Inner /\ c.msgs = {} /\ c.raised = {} /\ c.hadError = FALSE /\ ~c.syntax /\ c.lowered = 0 /\ c.expr = gen
  BY <1>1, <1>2 DEF Inner
<1> HIDE DEF c
<1>5. /\ pc' = "ast" /\ inner' = c /\ UNCHANGED <<gen, mode>>
  BY <1>3 DEF Advance
<1>6. FrontStages' /\ BackStages'
  BY <1>4, <1>5 DEF FrontStages, BackStages, Working
<1>7. Agree(c) /\ Running /\ mode # "fromAsm"
  BY <1>3, <1>4 DEF Agree, Running, SessionInv, Modes
<1> QED
  BY <1>3, <1>4, <1>6, <1>7, AdvanceKeeps DEF Step

LEMMA ToSeqCAstKeeps ==
  ASSUME SessionInv, TypeOK', ToSeqCAst
  PROVE  SessionInv'
<1>1. PICK seqc \in {0, gen} :
        Advance("lower", [inner EXCEPT !.resources = gen, !.main = FALSE, !.seqc = seqc])
  BY DEF ToSeqCAst
<1> DEFINE c == [inner EXCEPT !.resources = gen, !.main = FALSE, !.seqc = seqc]
<1>2. inner \in Inner /\ gen \in Program /\ pc = "ast" /\ mode # "fromAsm"
  BY DEF SessionInv, TypeOK, ToSeqCAst, Modes
<1>3. inner.lowered = 0 /\ ~inner.syntax /\ Agree(inner)
  BY <1>2, WorkingAgrees DEF SessionInv, FrontStages, Working
<1>4. /\ c \in Inner /\ c.msgs = inner.msgs /\ c.raised = inner.raised /\ c.hadError = inner.hadError /\ ~c.syntax
      /\ c.lowered = 0 /\ c.resources = gen /\ ~c.main /\ c.seqc \in {0, gen}
  BY <1>2, <1>3, ZeroProgram DEF Inner
<1>5. Advance("lower", c)
  BY <1>1
<1> HIDE DEF c
<1>6. pc' = "lower" /\ inner' = c /\ UNCHANGED <<gen, mode>>
  BY <1>5 DEF Advance
<1>7. FrontStages' /\ BackStages'
  BY <1>4, <1>6 DEF FrontStages, BackStages, Working
<1>8. Agree(c) /\ Running
  BY <1>2, <1>3, <1>4 DEF Agree, Running
<1> QED
  BY <1>2, <1>4, <1>5, <1>7, <1>8, AdvanceKeeps DEF Step

\* stepLower from its error check on.
LEMMA LoweredKeeps ==
  ASSUME SessionInv, TypeOK', pc = "lower", NEW c \in Inner, Agree(c), Lowered(c),
         ~c.syntax, c.lowered \in {0, gen}, c.main => c.ast = gen
  PROVE  SessionInv'
<1>1. Running /\ mode # "fromAsm"
  BY DEF Running, SessionInv, Modes
<1>2. CASE c.hadError
  BY <1>1, <1>2, FailKeeps DEF Lowered, Agree
<1>3. CASE ~c.hadError
  <2>1. Advance("preamble", c)
    BY <1>3 DEF Lowered
  <2>2. pc' = "preamble" /\ inner' = c /\ UNCHANGED <<gen, mode>>
    BY <2>1 DEF Advance
  <2>3. FrontStages' /\ BackStages'
    BY <2>2 DEF FrontStages, BackStages, Working
  <2> QED
    BY <1>1, <2>1, <2>3, AdvanceKeeps DEF Step
<1> QED
  BY <1>2, <1>3

LEMMA LowerKeeps ==
  ASSUME SessionInv, TypeOK', Lower
  PROVE  SessionInv'
<1>1. inner \in Inner /\ gen \in Program /\ pc = "lower" /\ mode # "fromAsm"
  BY DEF SessionInv, TypeOK, Lower, Modes
<1>2. inner.lowered = 0 /\ ~inner.syntax /\ ~inner.main /\ Agree(inner)
  BY <1>1, WorkingAgrees DEF SessionInv, FrontStages, Working
<1>3. CASE inner.seqc = 0
  BY <1>1, <1>2, <1>3, LoweredKeeps DEF Lower
<1>4. CASE inner.seqc # 0
  <2>1. PICK main \in BOOLEAN, said \in Reports :
          Lowered([Reported(inner, said) EXCEPT !.ast = gen, !.lowered = gen, !.main = main])
    BY <1>4 DEF Lower
  <2> DEFINE c == Reported(inner, said)
             e == [c EXCEPT !.ast = gen, !.lowered = gen, !.main = main]
  <2>2. c \in Inner /\ ~c.syntax
    BY <1>1, <1>2, ReportedFields
  <2>3. Agree(c)
    BY <1>1, <1>2, ReportedAgrees
  <2>4. Lowered(e)
    BY <2>1
  <2> HIDE DEF c
  <2>5. /\ e \in Inner /\ e.msgs = c.msgs /\ e.raised = c.raised /\ e.hadError = c.hadError /\ ~e.syntax
        /\ e.lowered = gen /\ e.ast = gen
    BY <1>1, <2>2 DEF Inner
  <2> HIDE DEF e
  <2>6. Agree(e)
    BY <2>3, <2>5 DEF Agree
  <2> QED
    BY <1>1, <2>4, <2>5, <2>6, LoweredKeeps
<1> QED
  BY <1>3, <1>4

LEMMA LowerThrowsKeeps ==
  ASSUME SessionInv, TypeOK', LowerThrows
  PROVE  SessionInv'
<1>1. inner \in Inner /\ gen \in Program /\ pc = "lower"
  BY DEF SessionInv, TypeOK, LowerThrows
<1>2. Agree(inner)
  BY <1>1, WorkingAgrees DEF Working
<1>3. PICK said \in Reports : Fail(Reported(inner, said), "thrown")
  BY DEF LowerThrows
<1> DEFINE c == Reported(inner, said)
<1>4. c \in Inner /\ Agree(c)
  BY <1>1, <1>2, ReportedFields, ReportedAgrees
<1>5. Fail(c, "thrown") /\ Running
  BY <1>1, <1>3 DEF Running
<1> HIDE DEF c
<1> QED
  BY <1>4, <1>5, FailKeeps DEF Agree

LEMMA PreambleKeeps ==
  ASSUME SessionInv, TypeOK', BuildAsmPreamble
  PROVE  SessionInv'
<1> DEFINE c == [inner EXCEPT !.placeholder = gen, !.code = gen, !.ast = Grafted(inner)]
<1>1. inner \in Inner /\ gen \in Program /\ pc = "preamble" /\ mode # "fromAsm"
  BY DEF SessionInv, TypeOK, BuildAsmPreamble, Modes
<1>2. /\ inner.lowered \in {0, gen} /\ ~inner.syntax /\ Agree(inner)
      /\ Grafted(inner) = gen
  BY <1>1, WorkingAgrees DEF SessionInv, FrontStages, Working, Grafted
<1>3. Advance("optPre", c)
  BY DEF BuildAsmPreamble
<1>4. /\ c \in Inner /\ c.msgs = inner.msgs /\ c.raised = inner.raised /\ c.hadError = inner.hadError /\ ~c.syntax
      /\ c.lowered \in {0, gen} /\ c.placeholder = gen /\ c.code = gen /\ c.ast = gen
  BY <1>1, <1>2 DEF Inner
<1> HIDE DEF c
<1>5. pc' = "optPre" /\ inner' = c /\ UNCHANGED <<gen, mode>>
  BY <1>3 DEF Advance
<1>6. FrontStages' /\ BackStages'
  BY <1>4, <1>5 DEF FrontStages, BackStages, Working
<1>7. Agree(c) /\ Running
  BY <1>1, <1>2, <1>4 DEF Agree, Running
<1> QED
  BY <1>1, <1>3, <1>4, <1>6, <1>7, AdvanceKeeps DEF Step

LEMMA OptPreKeeps ==
  ASSUME SessionInv, TypeOK', OptPre
  PROVE  SessionInv'
<1> DEFINE c == [inner EXCEPT !.optimizer = gen, !.ir = gen]
<1>1. inner \in Inner /\ gen \in Program /\ pc = "optPre" /\ mode # "fromAsm"
  BY DEF SessionInv, TypeOK, OptPre, Modes
<1>2. /\ inner.lowered \in {0, gen} /\ ~inner.syntax /\ Agree(inner)
      /\ inner.code = gen /\ inner.placeholder = gen /\ inner.ast = gen
  BY <1>1, WorkingAgrees DEF SessionInv, FrontStages, Working
<1>3. /\ c \in Inner /\ c.msgs = inner.msgs /\ c.raised = inner.raised /\ c.hadError = inner.hadError /\ ~c.syntax
      /\ c.lowered \in {0, gen} /\ c.placeholder = gen /\ c.code = gen /\ c.ast = gen
      /\ c.ir = gen /\ c.optimizer = gen
  BY <1>1, <1>2 DEF Inner
<1>4. CASE mode = "pre"
  <2>1. /\ pc' = "idle" /\ inner' = c /\ last'.status = "ok" /\ last'.cause = "none"
        /\ UNCHANGED <<mode, gen, outer, asm, written>>
    BY <1>4 DEF OptPre, Ends
  <2> QED
    BY <1>4, <2>1 DEF SessionInv, Modes, InnerMessages, OuterMessages, FrontStages,
       BackStages, Working, ReturnIsCoherent, NoSilentError, Explained
<1>5. CASE mode # "pre"
  <2>1. Advance("prefetch", c)
    BY <1>5 DEF OptPre
  <2> HIDE DEF c
  <2>2. pc' = "prefetch" /\ inner' = c /\ UNCHANGED <<gen, mode>>
    BY <2>1 DEF Advance
  <2>3. FrontStages' /\ BackStages'
    BY <1>1, <1>3, <2>2 DEF FrontStages, BackStages, Working
  <2>4. Agree(c) /\ Running
    BY <1>1, <1>2, <1>3 DEF Agree, Running
  <2> QED
    BY <1>1, <1>3, <1>5, <2>1, <2>3, <2>4, AdvanceKeeps DEF Step
<1> QED
  BY <1>4, <1>5

LEMMA OptPreFailsKeeps ==
  ASSUME SessionInv, TypeOK', OptPreFails
  PROVE  SessionInv'
<1> DEFINE c == [inner EXCEPT !.optimizer = gen]
<1>1. inner \in Inner /\ gen \in Program /\ Running /\ Agree(inner)
  BY WorkingAgrees DEF SessionInv, TypeOK, OptPreFails, Running, Working
<1>2. c \in Inner /\ c.msgs = inner.msgs /\ c.raised = inner.raised /\ c.hadError = inner.hadError
  BY <1>1 DEF Inner
<1>3. Agree(c)
  BY <1>1, <1>2 DEF Agree
<1>4. (\E text \in Texts : Fail(OptimizeCaught(c, text), "optimize")) \/ Fail(c, "thrown")
  BY DEF OptPreFails
<1> HIDE DEF c
<1> QED
  BY <1>1, <1>2, <1>3, <1>4, FailKeeps, OptimizeCaughtExplains DEF Agree

LEMMA PrefetchKeeps ==
  ASSUME SessionInv, TypeOK', Prefetch
  PROVE  SessionInv'
<1>1. inner \in Inner /\ gen \in Program /\ pc = "prefetch" /\ inner.ir # 0
  BY DEF SessionInv, TypeOK, Prefetch
<1>2. mode # "fromAsm" /\ mode # "pre"
  BY <1>1 DEF SessionInv, Modes, BackStages
<1>3. /\ ~inner.syntax /\ Agree(inner)
      /\ inner.code = gen /\ inner.ast = gen /\ inner.ir = gen /\ inner.optimizer = gen
  BY <1>1, <1>2, WorkingAgrees DEF SessionInv, FrontStages, BackStages, Working
<1>4. PICK said \in Reports : Advance("optPost", [Reported(inner, said) EXCEPT !.channels = gen])
  BY DEF Prefetch
<1> DEFINE d == Reported(inner, said)
           c == [d EXCEPT !.channels = gen]
<1>5. /\ d \in Inner /\ Agree(d) /\ ~d.syntax
      /\ d.code = gen /\ d.ast = gen /\ d.ir = gen /\ d.optimizer = gen
  BY <1>1, <1>3, ReportedFields, ReportedAgrees
<1>6. Advance("optPost", c)
  BY <1>4
<1> HIDE DEF d
<1>7. /\ c \in Inner /\ c.msgs = d.msgs /\ c.raised = d.raised /\ c.hadError = d.hadError /\ ~c.syntax
      /\ c.code = gen /\ c.ast = gen /\ c.ir = gen /\ c.optimizer = gen /\ c.channels = gen
  BY <1>1, <1>5 DEF Inner
<1> HIDE DEF c
<1>8. pc' = "optPost" /\ inner' = c /\ UNCHANGED <<gen, mode>>
  BY <1>6 DEF Advance
<1>9. FrontStages' /\ BackStages'
  BY <1>7, <1>8 DEF FrontStages, BackStages, Working
<1>10. Agree(c) /\ Running
  BY <1>1, <1>5, <1>7 DEF Agree, Running
<1> QED
  BY <1>2, <1>6, <1>7, <1>9, <1>10, AdvanceKeeps DEF Step

LEMMA PrefetchFailsKeeps ==
  ASSUME SessionInv, TypeOK', PrefetchThrows \/ PrefetchCrashes
  PROVE  SessionInv'
<1>1. CASE PrefetchThrows
  <2>1. inner \in Inner /\ Running /\ Agree(inner) /\ Fail(inner, "thrown")
    BY <1>1, WorkingAgrees DEF SessionInv, TypeOK, PrefetchThrows, Running, Working
  <2> QED
    BY <2>1, FailKeeps DEF Agree
<1>2. CASE PrefetchCrashes
  <2>1. /\ pc = "prefetch" /\ pc' = "crashed" /\ inner.ir = 0
        /\ UNCHANGED <<mode, gen, outer, inner, asm, last, written>>
    BY <1>2 DEF PrefetchCrashes
  <2>2. mode = "fromAsm"
    BY <2>1 DEF SessionInv, Modes, BackStages
  <2> QED
    BY <2>1, <2>2 DEF SessionInv, Modes, InnerMessages, OuterMessages, FrontStages,
       BackStages, Working, ReturnIsCoherent, NoSilentError, Explained
<1> QED
  BY <1>1, <1>2

LEMMA OptPostKeeps ==
  ASSUME SessionInv, TypeOK', OptPost
  PROVE  SessionInv'
<1>1. /\ inner \in Inner /\ gen \in Program /\ pc = "optPost"
      /\ mode # "fromAsm" /\ mode # "pre"
  BY DEF SessionInv, TypeOK, OptPost, Modes
<1>2. /\ ~inner.syntax /\ Agree(inner) /\ inner.channels = gen
      /\ inner.code = gen /\ inner.ast = gen /\ inner.ir = gen /\ inner.optimizer = gen
  BY <1>1, WorkingAgrees DEF SessionInv, FrontStages, BackStages, Working
<1>3. PICK said \in Reports : Advance("project", Reported(inner, said))
  BY DEF OptPost
<1> DEFINE c == Reported(inner, said)
<1>4. /\ c \in Inner /\ Agree(c) /\ ~c.syntax /\ c.channels = gen
      /\ c.code = gen /\ c.ast = gen /\ c.ir = gen /\ c.optimizer = gen
  <2>1. Agree(c)
    BY <1>1, <1>2, ReportedAgrees
  <2>2. /\ c \in Inner /\ c.syntax = inner.syntax /\ c.channels = inner.channels
        /\ c.code = inner.code /\ c.ast = inner.ast /\ c.ir = inner.ir
        /\ c.optimizer = inner.optimizer
    BY <1>1, ReportedFields
  <2> QED
    BY <1>2, <2>1, <2>2
<1>5. Advance("project", c)
  BY <1>3
<1> HIDE DEF c
<1>6. pc' = "project" /\ inner' = c /\ UNCHANGED <<gen, mode>>
  BY <1>5 DEF Advance
<1>7. FrontStages' /\ BackStages' /\ Running
  BY <1>1, <1>4, <1>6 DEF FrontStages, BackStages, Working, Running
<1> QED
  BY <1>1, <1>4, <1>5, <1>7, AdvanceKeeps DEF Step

LEMMA OptPostFailsKeeps ==
  ASSUME SessionInv, TypeOK', OptPostFails
  PROVE  SessionInv'
<1>1. inner \in Inner /\ gen \in Program /\ Running /\ Agree(inner)
  BY WorkingAgrees DEF SessionInv, TypeOK, OptPostFails, Running, Working
<1>2. (\E text \in Texts : Fail(OptimizeCaught(inner, text), "optimize")) \/ Fail(inner, "thrown")
  BY DEF OptPostFails
<1> QED
  BY <1>1, <1>2, FailKeeps, OptimizeCaughtExplains DEF Agree

LEMMA ProjectKeeps ==
  ASSUME SessionInv, TypeOK', Project
  PROVE  SessionInv'
<1>1. /\ inner \in Inner /\ outer \in Outer /\ gen \in Program /\ pc = "project"
      /\ mode # "fromAsm" /\ mode # "pre"
  BY DEF SessionInv, TypeOK, Project, Modes
<1>2. /\ ~inner.syntax /\ Agree(inner) /\ inner.channels = gen
      /\ inner.code = gen /\ inner.ir = gen
  BY <1>1, WorkingAgrees DEF SessionInv, FrontStages, BackStages, Working
<1>3. CASE Projectable(inner)
  <2>1. /\ pc' = "listing" /\ inner' = [inner EXCEPT !.rate = gen]
        /\ outer' = [outer EXCEPT !.code = inner.code, !.ir = inner.ir]
        /\ UNCHANGED <<mode, gen, asm, last, written>>
    BY <1>3 DEF Project
  <2>2. /\ inner'.msgs = inner.msgs /\ inner'.raised = inner.raised /\ inner'.hadError = inner.hadError
        /\ inner'.syntax = inner.syntax /\ inner'.code = gen
        /\ inner'.channels = gen /\ inner'.rate = gen
    BY <1>1, <1>2, <2>1 DEF Inner
  <2>3. /\ outer'.code = gen /\ outer'.ir = gen /\ outer'.msgs = outer.msgs
        /\ outer'.source = outer.source
    BY <1>1, <1>2, <2>1 DEF Outer
  <2>4. ~inner.hadError
    BY <1>3 DEF Projectable
  <2> QED
    BY <1>1, <1>2, <2>1, <2>2, <2>3, <2>4 DEF SessionInv, Modes, InnerMessages, OuterMessages,
       FrontStages, BackStages, Working, ReturnIsCoherent, NoSilentError, Explained
<1>4. CASE ~Projectable(inner)
  <2>1. Fail(inner, "reported") /\ inner.hadError /\ Running
    BY <1>1, <1>4 DEF Project, Projectable, Running
  <2> QED
    BY <1>1, <1>2, <2>1, FailKeeps DEF Agree
<1> QED
  BY <1>3, <1>4

----------------------------------------------------------------------------
(* The listing, the back end and the writers.                              *)

LEMMA ListingKeeps ==
  ASSUME SessionInv, TypeOK', Listing
  PROVE  SessionInv'
<1>1. outer \in Outer /\ pc = "listing" /\ mode # "fromAsm" /\ mode # "pre"
  BY DEF SessionInv, TypeOK, Listing, Modes
<1>2. /\ outer.msgs = {} /\ ~inner.hadError /\ inner.raised = {} /\ ~inner.syntax /\ Agree(inner)
      /\ outer.source = gen
  BY <1>1, WorkingAgrees DEF SessionInv, OuterMessages, FrontStages, BackStages, Working
<1>3. /\ outer'.msgs = inner.msgs /\ outer'.text = outer.code /\ outer'.code = outer.code
      /\ outer'.ir = outer.ir /\ outer'.source = outer.source
  BY <1>1, <1>2 DEF Listing, Listed, PassedOn, Outer
<1>4. \A m \in inner.msgs : m.of = gen /\ m.type # "error"
  BY <1>2 DEF Agree
<1>5. CASE mode = "compile"
  <2>1. pc' = "assemble" /\ UNCHANGED <<mode, gen, inner, asm, last>>
    BY <1>5 DEF Listing
  <2> QED
    BY <1>1, <1>2, <1>3, <1>4, <1>5, <2>1 DEF SessionInv, Modes, InnerMessages, OuterMessages,
       FrontStages, BackStages, Working, ReturnIsCoherent, NoSilentError, Explained
<1>6. CASE mode # "compile"
  <2>1. /\ pc' = "idle" /\ last'.status = "ok" /\ last'.cause = "none"
        /\ UNCHANGED <<mode, gen, inner, asm>>
    BY <1>6 DEF Listing, Ends
  <2> QED
    BY <1>1, <1>2, <1>3, <1>4, <1>6, <2>1 DEF SessionInv, Modes, InnerMessages, OuterMessages,
       FrontStages, BackStages, Working, ReturnIsCoherent, NoSilentError, Explained
<1> QED
  BY <1>5, <1>6

LEMMA AssembleKeeps ==
  ASSUME SessionInv, TypeOK', Assemble \/ AssembleFails
  PROVE  SessionInv'
<1>1. asm \in Assembler /\ pc = "assemble" /\ mode = "compile" /\ gen \in Program
  BY DEF SessionInv, TypeOK, Assemble, AssembleFails, Modes, Mode
<1>2. CASE Assemble
  <2>1. /\ pc' = "limits" /\ asm'.opcodes = outer.code /\ asm'.rejected = FALSE
        /\ UNCHANGED <<mode, gen, outer, inner, last>>
    BY <1>1, <1>2 DEF Assemble, Assembled, Assembler
  <2> QED
    BY <1>1, <2>1 DEF SessionInv, Modes, InnerMessages, OuterMessages,
       FrontStages, BackStages, Working, ReturnIsCoherent, NoSilentError, Explained
<1>3. CASE AssembleFails
  <2>1. /\ pc' = "idle" /\ gen \in asm'.msgs /\ last'.status = "failed"
        /\ last'.cause = "assembler" /\ UNCHANGED <<mode, gen, outer, inner>>
    BY <1>3 DEF AssembleFails, Ends
  <2> QED
    BY <1>1, <2>1 DEF SessionInv, Modes, InnerMessages, OuterMessages,
       FrontStages, BackStages, Working, ReturnIsCoherent, NoSilentError, Explained
<1> QED
  BY <1>2, <1>3

LEMMA LimitsKeeps ==
  ASSUME SessionInv, TypeOK', CheckLimits \/ OverLimit
  PROVE  SessionInv'
<1>1. outer \in Outer /\ pc = "limits" /\ mode = "compile" /\ gen \in Program
  BY DEF SessionInv, TypeOK, CheckLimits, OverLimit, Modes, Mode
<1>2. /\ outer.source = gen /\ outer.ir = gen /\ outer.text = asm.opcodes
      /\ outer.msgs = inner.msgs /\ ~inner.hadError /\ inner.raised = {} /\ ~inner.syntax /\ ~asm.rejected
      /\ Agree(inner) /\ asm.opcodes \in {0, gen}
      /\ asm.opcodes = gen => inner.code = gen /\ inner.channels = gen /\ inner.rate = gen
  BY <1>1, WorkingAgrees DEF SessionInv, OuterMessages, FrontStages, BackStages, Working
<1>3. CASE CheckLimits
  <2>1. /\ pc' = "idle" /\ last'.status = "ok" /\ last'.cause = "none"
        /\ UNCHANGED <<mode, gen, outer, inner, asm>>
    BY <1>3 DEF CheckLimits, Ends
  <2> QED
    BY <1>1, <1>2, <2>1 DEF SessionInv, Agree, Modes, InnerMessages, OuterMessages,
       FrontStages, BackStages, Working, ReturnIsCoherent, NoSilentError, Explained
<1>4. CASE OverLimit
  <2>1. /\ pc' = "idle" /\ last'.status = "failed" /\ last'.cause = "limit"
        /\ UNCHANGED <<mode, gen, inner, asm>>
    BY <1>4 DEF OverLimit, Ends
  <2>3. PICK text \in Texts :
          outer' = [outer EXCEPT !.msgs = @ \cup {[of |-> gen, text |-> text, type |-> "error"]}]
    BY <1>4 DEF OverLimit
  <2>2. /\ outer'.msgs = outer.msgs \cup {[of |-> gen, text |-> text, type |-> "error"]}
        /\ outer'.source = outer.source
    BY <1>1, <2>3 DEF Outer
  <2>4. \A m \in outer'.msgs : m.of = gen
    BY <1>2, <2>2 DEF Agree
  <2>5. \E m \in outer'.msgs : m.type = "error"
    <3>1. [of |-> gen, text |-> text, type |-> "error"] \in outer'.msgs
      BY <2>2
    <3>2. [of |-> gen, text |-> text, type |-> "error"].type = "error"
      OBVIOUS
    <3> QED BY <3>1, <3>2
  <2> QED
    BY <1>1, <1>2, <2>1, <2>2, <2>4, <2>5 DEF SessionInv, Agree, Modes, InnerMessages, OuterMessages,
       FrontStages, BackStages, Working, ReturnIsCoherent, NoSilentError, Explained
<1> QED
  BY <1>3, <1>4

LEMMA WritersKeep ==
  ASSUME SessionInv, TypeOK', WriteElf \/ WriteListing \/ UNCHANGED vars
  PROVE  SessionInv'
<1>1. UNCHANGED <<pc, mode, gen, outer, inner, asm, last>>
  BY DEF WriteElf, WriteListing, vars
<1> QED
  BY <1>1 DEF SessionInv, Modes, InnerMessages, OuterMessages, FrontStages, BackStages,
     Working, ReturnIsCoherent, NoSilentError, Explained

LEMMA StepInv == SessionInv /\ [Next]_vars => SessionInv'
<1> SUFFICES ASSUME SessionInv, [Next]_vars PROVE SessionInv'
  OBVIOUS
<1>1. TypeOK'
  BY StepTyped DEF SessionInv
<1>2. CASE Call
  BY <1>1, <1>2, OpeningKeeps, MissingFileKeeps, FromAsmKeeps DEF Call
<1>3. CASE Pipeline
  BY <1>1, <1>3, ParseFailsKeeps, ParseEmptyKeeps, ParseKeeps, ToSeqCAstKeeps, LowerKeeps,
     LowerThrowsKeeps, PreambleKeeps, OptPreKeeps, OptPreFailsKeeps, PrefetchKeeps,
     PrefetchFailsKeeps, OptPostKeeps, OptPostFailsKeeps, ProjectKeeps, ListingKeeps,
     AssembleKeeps, LimitsKeeps DEF Pipeline
<1>4. CASE WriteElf \/ WriteListing \/ UNCHANGED vars
  BY <1>1, <1>4, WritersKeep
<1> QED
  BY <1>2, <1>3, <1>4 DEF Next

LEMMA InvGives ==
  SessionInv => FreshInputs /\ ReturnIsCoherent /\ NoSilentError /\ FailureIsExplained
<1> SUFFICES ASSUME SessionInv
             PROVE  FreshInputs /\ FailureIsExplained
  BY DEF SessionInv
<1>1. pc = "prefetch" => inner.code = gen /\ inner.placeholder = gen /\ inner.lowered \in {0, gen}
  BY DEF SessionInv, BackStages
<1>2. FreshInputs
  BY <1>1 DEF SessionInv, FrontStages, BackStages, FreshInputs
<1>3. FailureIsExplained
  BY DEF SessionInv, OuterMessages, Explained, OwnDiagnostics, FailureIsExplained
<1> QED
  BY <1>2, <1>3

\* Only writeToStream leaves an image, and what it finds after a normal return
\* is the program's own.
LEMMA ImageKept ==
  SuccessIsCoherent /\ SessionInv /\ [Next]_vars => SuccessIsCoherent'
<1> SUFFICES ASSUME SuccessIsCoherent, SessionInv, [Next]_vars PROVE SuccessIsCoherent'
  OBVIOUS
<1>1. ReturnIsCoherent'
  BY StepInv, InvGives DEF SessionInv
<1>2. CASE WriteElf
  <2>1. /\ pc = "idle" /\ asm.opcodes # 0 /\ ReturnIsCoherent
        /\ written' = [kind |-> "elf", code |-> asm.opcodes, source |-> outer.source,
                       text |-> outer.text, of |-> gen, by |-> mode, after |-> last.status]
    BY <1>2 DEF WriteElf, SessionInv
  <2>2. mode = "compile" /\ last.status = "ok" =>
          asm.opcodes = gen /\ outer.source = gen /\ outer.text = gen
    BY <2>1 DEF ReturnIsCoherent
  <2>3. /\ written'.code = asm.opcodes /\ written'.source = outer.source
        /\ written'.text = outer.text /\ written'.of = gen
        /\ written'.by = mode /\ written'.after = last.status
    BY <2>1
  <2> QED
    BY <1>1, <2>2, <2>3 DEF SuccessIsCoherent
<1>3. CASE WriteListing
  <2>1. written' = [Nothing EXCEPT !.kind = "listing", !.text = outer.text, !.of = gen, !.by = mode]
    BY <1>3 DEF WriteListing
  <2>2. written'.kind = "listing"
    BY <2>1 DEF Nothing
  <2> QED
    BY <1>1, <2>2 DEF SuccessIsCoherent
<1>4. CASE UNCHANGED written
  BY <1>1, <1>4 DEF SuccessIsCoherent
<1>5. Call \/ Pipeline \/ UNCHANGED vars => UNCHANGED written
  BY DEF Call, Pipeline, vars, CompileString, CompileFile, CompileMissingFile, InnerCompile,
     FrontEndOnly, CompileFromAsm, ParseFails, ParseEmpty, Parse, ToSeqCAst, Lower, LowerThrows,
     BuildAsmPreamble, OptPre, OptPreFails, Prefetch, PrefetchThrows, PrefetchCrashes, OptPost,
     OptPostFails, Project, Listing, Assemble, AssembleFails, CheckLimits, OverLimit,
     Advance, Fail, Lowered
<1> QED
  BY <1>2, <1>3, <1>4, <1>5 DEF Next

\* A step of the pipeline reads its own program's data only, however many
\* programs the compiler has served and wherever they failed.
THEOREM FreshInputsAlways == Spec => []FreshInputs
<1> QED
  BY InitInv, StepInv, InvGives, PTL DEF Spec

\* A compile that returns normally leaves, and writes, an image of its own
\* program only.
THEOREM SuccessIsAlwaysCoherent == Spec => []SuccessIsCoherent
<1>1. Init => SuccessIsCoherent
  BY InitInv, InvGives DEF Init, Nothing, SuccessIsCoherent
<1> QED
  BY <1>1, InitInv, StepInv, ImageKept, PTL DEF Spec

\* No error a program caused ends in a normal return.
THEOREM ErrorsAreNeverSilent == Spec => []NoSilentError
<1> QED
  BY InitInv, StepInv, InvGives, PTL DEF Spec

\* A failure the pipeline reported is in the report the caller reads, and the
\* report names its own program only.
THEOREM FailuresAreExplained == Spec => []FailureIsExplained
<1> QED
  BY InitInv, StepInv, InvGives, PTL DEF Spec
=============================================================================
