------------------------------ MODULE Toolchain ------------------------------
(***************************************************************************)
(* One model of the parts that have no state in common: those of the tool  *)
(* chain, which hand one another files and nothing else, and bstd.threads. *)
(* Each behaviour takes one of them, `part', through one of its inputs,    *)
(* step by step where the part goes in steps that others can see or that   *)
(* leave something half done, at once where it is a function.  What a part *)
(* promises is a property here.                                            *)
(***************************************************************************)
EXTENDS Imports, Linker, Packages, Threads, MCImports, MCLinker, MCPackages

VARIABLES part, \* the part at work
          text, \* a phrase, a program: the input of a function
          input, queue, enqueued, done, made, items, bases, stage \* Mono

mono == <<input, queue, enqueued, done, made, items, bases, stage>>
vars == <<part, text, imports, mono, linker, packages, threads>>

Unused == 0
\* The inputs of the functions.
PaIn == INSTANCE MCParser
PrIn == INSTANCE MCPrograms
MoIn == INSTANCE MCMono
TyIn == INSTANCE MCTyped

Pa == INSTANCE Parser WITH Idents <- PaIn!PaIdents, Literals <- PaIn!PaLiterals,
        Letters <- PaIn!PaLetters, Digits <- PaIn!PaDigits, Spaces <- PaIn!PaSpaces
Mo == INSTANCE Mono WITH Inputs <- MoIn!MoInputs, Program <- MoIn!MoProgram,
        Dotted <- MoIn!MoDotted, MaxInstances <- 8
Ty == INSTANCE Typing WITH StdTypes <- TyIn!StdTypes, StdFunctions <- TyIn!StdFunctions,
        Items0 <- TyIn!Items0, Params <- TyIn!NameOf, ParamTypes <- TyIn!TypesOf
Co == INSTANCE Compile
Me == INSTANCE Meaning
Op == INSTANCE SsaPasses

ASSUME InstancesAssumption == ScaleAssumption /\ LinksAssumption /\ VersionsAssumption /\ ConfigsAssumption
                             /\ TreesAssumption /\ EarlierAssumption

-----------------------------------------------------------------------------
Parts == {"imports", "parser", "checker", "mono", "compiler", "optimizer", "linker", "packages", "threads"}

MonoIdle == /\ input = Unused /\ queue = Unused /\ enqueued = Unused /\ done = Unused
            /\ made = Unused /\ items = Unused /\ bases = Unused /\ stage = Unused
AnyTree == CHOOSE t \in Trees : TRUE
AnyJob == CHOOSE j \in Links : TRUE
AnyConfig == CHOOSE c \in Configs : TRUE
AnyTurn == CHOOSE c \in Coroutines : TRUE

\* A part that is not at work stays in one of its initial states.
Init ==
    /\ part \in Parts /\ text = <<>>
    /\ tree \in (IF part = "imports" THEN Trees ELSE {AnyTree}) /\ NothingLoaded
    /\ SomeBroken /\ (part # "imports" => broken = {})
    /\ job \in (IF part = "linker" THEN Links ELSE {AnyJob}) /\ NothingLinked
    /\ PackagesInit /\ (part # "packages" => config = AnyConfig)
    /\ ThreadsInit /\ (part # "threads" => cur = AnyTurn)
    /\ IF part = "mono" THEN Mo!Init ELSE MonoIdle

\* Phrases of the grammar, with the rule that reads them.
Phrases ==
    {<<"expr", e>> : e \in PaIn!Zero}
    \cup UNION {{<<"expr", e>> : e \in PaIn!ExprsOver(s)} : s \in PaIn!Simple \cup PaIn!Zero}
    \cup UNION {{<<"statement", e>> : e \in PaIn!StatementsOver(s)} : s \in PaIn!Simple \cup PaIn!Zero}
    \cup UNION {{<<"statement", e>> : e \in PaIn!StatementsOf(t)} : t \in PaIn!Types}
    \cup UNION {{<<"item", e>> : e \in PaIn!ItemsOver(t, s)} : t \in PaIn!Types, s \in PaIn!Atoms}
\* For the checker: the body of a function or member, classes, instances of a generic class.
Typed ==
    {<<"body", b>> : b \in TyIn!TBodies} \cup {<<"classes", t>> : t \in TyIn!Tables}
    \cup {<<"instances", t>> : t \in TyIn!Instances}
\* Programs: a part in two contexts, or an operation on two operands.
Nestings == PrIn!ContextNames \X PrIn!ContextNames
Programs ==
    {<<"part", x[1], x[2], k>> : x \in Nestings, k \in DOMAIN PrIn!Parts}
    \cup {<<"loop", x[1], x[2], k>> :
             x \in {y \in Nestings : y[1] \in PrIn!Loops \/ (y[2] \in PrIn!Loops /\ y[1] # "lambda")},
             k \in DOMAIN PrIn!LoopParts}
    \cup {<<"operation", e>> : e \in UNION {PrIn!Ops(x, y) : x \in PrIn!Operands, y \in PrIn!Operands}}
Optimized == PrIn!PassContexts \X PrIn!PassContexts \X (DOMAIN PrIn!PassParts)

Read(p, inputs) == part = p /\ text = <<>> /\ text' \in inputs
Next ==
    \/ part = "imports" /\ ImportsNext /\ UNCHANGED <<part, text, mono, linker, packages, threads>>
    \/ part = "mono" /\ Mo!Next /\ UNCHANGED <<part, text, imports, linker, packages, threads>>
    \/ part = "linker" /\ LinkerNext /\ UNCHANGED <<part, text, imports, mono, packages, threads>>
    \/ part = "packages" /\ PackagesNext /\ UNCHANGED <<part, text, imports, mono, linker, threads>>
    \/ part = "threads" /\ ThreadsNext /\ UNCHANGED <<part, text, imports, mono, linker, packages>>
    \/ /\ \/ Read("parser", Phrases) \/ Read("checker", Typed) \/ Read("compiler", Programs) \/ Read("optimizer", Optimized)
       /\ UNCHANGED <<part, imports, mono, linker, packages, threads>>

Spec == Init /\ [][Next]_vars

-----------------------------------------------------------------------------
(* What Imports, Linker, Packages and Threads promise is stated there.       *)
InstancesClosed == part = "mono" => Mo!InstancesClosed

(* A phrase is read as what it was written from, whatever surrounds its     *)
(* operators and however it is spaced, but for the phrases with a mark of   *)
(* MCParser, each a place where the parser or the lexer reads ahead wrongly. *)
ReadAsWritten(rule, phrase) ==
    \/ phrase.odd # {} \/ PaIn!OneToken(phrase.x, TRUE)
    \/ Pa!Parsed(Pa!Tokenize(PaIn!Source(phrase.x, TRUE)), rule) = phrase.v
ParsedAsWritten == [][part = "parser" => ReadAsWritten(text'[1], text'[2])]_vars

(* When the checker accepts a body, running it raises no type error, leaves *)
(* every variable and the result of their types and constants as they are,  *)
(* and jumps out of nothing; but for the bodies with a note of Sema.         *)
AcceptedKeepsTypes ==
    [][part = "checker" /\ text'[1] = "body" =>
         Ty!KeepsTypes(text'[2].how, text'[2].body, text'[2].ret, {TyIn!World(1), TyIn!World(2)})]_vars
(* In accepted declarations a type below another has its members, which fit, *)
(* no type is below one that is below it, and the arguments of a generic     *)
(* type satisfy its constraints; but for those with a note of Sema.          *)
DeclarationsHold ==
    [][part = "checker" =>
         CASE text'[1] = "body" -> TRUE
           [] text'[1] = "classes" -> Ty!KeepsMembers(text'[2])
           [] text'[1] = "instances" -> Ty!KeepsConstraints(text'[2])]_vars

(* A compiled program does what the program means: the machine prints what   *)
(* the evaluator of Meaning prints, ends as it ends (with the same exception  *)
(* if with one), and leaves no value and no handler behind, wherever break,   *)
(* continue, return and throw lead out of, but for the programs with a note,  *)
(* each a place where the compiler or the machine does something else.        *)
ProgramOf(x) ==
    CASE x[1] = "part" -> PrIn!Nested(PrIn!Parts[x[4]], x[2], x[3])
      [] x[1] = "loop" -> PrIn!Nested(PrIn!LoopParts[x[4]], x[2], x[3])
      [] OTHER         -> PrIn!Printed(x[2])
RunsAsMeant(P) ==
    LET chunks == Co!Module0(P)
        r == Me!Meaning(P, 30)
        m == Co!Run(chunks, Co!Boot(chunks, Len(chunks)), 10)
    IN \/ r.w.notes # {}
       \/ /\ m.ended = (IF r.is = "throw" THEN "uncaught" ELSE "done")
          /\ m.out = r.w.out
          /\ r.is = "throw" => m.result = r.v
          /\ r.is # "throw" => Len(m.stack) = 8 /\ m.tries = <<>>
CompiledAsWritten == [][part = "compiler" => RunsAsMeant(ProgramOf(text'))]_vars

(* An optimized program does what the program it was made from does, with    *)
(* each pipeline of passes and each order of the blocks, but where a pass    *)
(* adds a note.                                                              *)
OptimizedRunsAlike(outer, inner, k) ==
    LET P == Co!Module0(PrIn!PassNested(PrIn!PassParts[k], outer, inner))
        r == Co!Run(P, Co!Boot(P, Len(P)), 10)
        Alike(pipeline, up) ==
            LET o == Op!Optimized(P, pipeline, up)
                m == Co!Run(o.chunks, Co!Boot(o.chunks, Len(P)), 11)
            IN \/ o.notes # {}
               \/ /\ m.ended = r.ended /\ m.out = r.out
                  /\ m.ended = "uncaught" => m.result = r.result
    IN \A pipeline \in {Op!Speed, Op!Size}, up \in BOOLEAN : Alike(pipeline, up)
OptimizedAsWritten == [][part = "optimizer" => OptimizedRunsAlike(text'[1], text'[2], text'[3])]_vars
=============================================================================
