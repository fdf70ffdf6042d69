------------------------------- MODULE Filter -------------------------------
(***************************************************************************)
(* internal/filter/filter.go: what seek_result shows of a cached content.  *)
(* One call of Apply: the expression is unwrapped and dispatched; grep and *)
(* jq run in steps, because the deadline can pass between any two of them. *)
(* A text is the non-empty sequence of its lines, "" a single Blank line.  *)
(* The regular expression, the JSON parser and gojq are external.          *)
(***************************************************************************)
EXTENDS Integers, SequencesExt

CONSTANTS Lines,         \* lines that occur
          Blank,         \* the empty line
          MaxLines,      \* bound on the lines of a block
          MaxBlocks,     \* bound on the blocks of a content
          Numbers,       \* numbers asked for
          Stride,        \* how many lines grep reads between two looks at the deadline
          MaxJQResults   \* the package's cap on the results of a pipeline

ASSUME BlankAssumption == Blank \in Lines
ASSUME NumbersAssumption == Numbers \subseteq Int
ASSUME LimitsAssumption == {MaxLines, MaxBlocks, Stride, MaxJQResults} \subseteq Nat \ {0}

VARIABLES content, expr,  \* the arguments of Apply
          pc,             \* "called", "grepping", "iterating", "done"
          at,             \* grep: <<block, line>> it looks at next
          found,          \* grep: the lines that matched
          emitted,        \* jq: how many results came
          expired,        \* the deadline has passed
          late,           \* history: lines grep matched after the deadline
          answer

args == <<content, expr>>
vars == <<args, pc, at, found, emitted, expired, late, answer>>

Text(lines) == IF lines = <<>> THEN <<Blank>> ELSE lines   \* strings.Join

Block(type, lines) == [type |-> type, lines |-> lines]
Blocks == {Block("image", <<Blank>>)} \cup { Block("text", t) : t \in BoundedSeq(Lines, MaxLines) \ {<<>>} }

\* array: the content unmarshals into content blocks, which any other JSON
\* value a server may put there does not.
Contents == { [array |-> TRUE, blocks |-> bs] : bs \in BoundedSeq(Blocks, MaxBlocks) }
              \cup { [array |-> FALSE, blocks |-> <<>>] }

\* valid: the number, regular expression or jq program can be read.  wrap: the
\* expression is written plain, as the shell would have it (jq '...'), or with
\* blanks before it.
Expression(form, valid, n, pattern, wrap) ==
    [form |-> form, valid |-> valid, n |-> n, pattern |-> pattern, wrap |-> wrap]
Expressions ==
    UNION { { Expression(f, TRUE, n, {}, w) : f \in {"head", "tail", "line"}, n \in Numbers }
              \cup { Expression("grep", TRUE, 0, p, w) : p \in SUBSET Lines }
              \cup { Expression(f, v, 0, {}, w) : f \in {"grep", "head", "tail", "line", "jq"}, v \in BOOLEAN }
              \cup { Expression("full", TRUE, 0, {}, w) } : w \in {"plain", "shell", "padded"} }

Pending == [kind |-> "none", lines |-> <<>>, results |-> 0]
Error == [kind |-> "error", lines |-> <<>>, results |-> 0]
Shown(lines) == [kind |-> "text", lines |-> Text(lines), results |-> 0]

Init ==
    /\ content \in Contents /\ expr \in Expressions
    /\ pc = "called" /\ answer = Pending
    /\ at = <<1, 1>> /\ found = <<>> /\ emitted = 0
    /\ expired = FALSE /\ late = 0

-----------------------------------------------------------------------------
(* The forms *)

\* stripJQShellSyntax and the switch on the prefix: after blanks no prefix is
\* recognised, and nothing but a jq wrapper is trimmed.
Form(e) == IF e.wrap = "padded" THEN "jq" ELSE e.form

\* A prefix after blanks does not parse as jq; blanks alone do, and so does jq.
Valid(e) == e.valid /\ (e.wrap = "padded" => e.form \in {"jq", "full"})

\* The elements of a sequence at the given positions, in order.
Select(s, positions) ==
    LET upTo[i \in 0 .. Len(s)] ==
          IF i = 0 THEN <<>>
          ELSE IF i \in positions THEN Append(upTo[i - 1], s[i]) ELSE upTo[i - 1]
    IN upTo[Len(s)]

Texts(c) == Select(c.blocks, { i \in DOMAIN c.blocks : c.blocks[i].type = "text" })
AllLines(c) == FlattenSeq([i \in DOMAIN Texts(c) |-> Texts(c)[i].lines])

Clamp(n, lines) == IF n > Len(lines) THEN Len(lines) ELSE n
BugLastLines(n, lines) == SubSeq(lines, Len(lines) - Clamp(n, lines) + 2, Len(lines))
FirstLines(n, lines) == SubSeq(lines, 1, Clamp(n, lines))
LastLines(n, lines) == SubSeq(lines, Len(lines) - Clamp(n, lines) + 1, Len(lines))

Answers(a) == answer' = a /\ pc' = "done"

\* What the expression or the content rules out before any line is read.
Refused ==
    \/ ~ Valid(expr)
    \/ Form(expr) \in {"head", "tail", "line"} /\ expr.n < 0
    \/ Form(expr) # "jq" /\ ~ content.array
    \/ Form(expr) = "line" /\ expr.n >= Len(AllLines(content))

Refuses ==
    /\ pc = "called" /\ Refused
    /\ Answers(Error)
    /\ UNCHANGED <<args, at, found, emitted, expired, late>>

\* applyFull and applyLines.
Cuts ==
    LET lines == AllLines(content) IN
    /\ pc = "called" /\ ~ Refused
    /\ \/ Form(expr) = "full" /\ Answers(Shown(lines))
       \/ Form(expr) = "head" /\ Answers(Shown(FirstLines(expr.n, lines)))
       \/ Form(expr) = "tail" /\ Answers(Shown(LastLines(expr.n, lines)))
       \/ Form(expr) = "line" /\ Answers(Shown(<<lines[expr.n + 1]>>))
    /\ UNCHANGED <<args, at, found, emitted, expired, late>>

\* applyGrep and applyJQ begin.
Begins ==
    /\ pc = "called" /\ ~ Refused
    /\ \/ Form(expr) = "grep" /\ pc' = "grepping"
       \/ Form(expr) = "jq" /\ pc' = "iterating"
    /\ UNCHANGED <<args, at, found, emitted, expired, late, answer>>

\* DefaultTimeout passes, which cancels the context of the call.
Expires ==
    /\ pc # "done" /\ ~ expired
    /\ expired' = TRUE
    /\ UNCHANGED <<args, pc, at, found, emitted, late, answer>>

-----------------------------------------------------------------------------
(* grep: block by block, line by line *)

BugLooksOncePerBlock(i) == i = 1

\* The lines of a block before which grep looks at the deadline.
LooksBefore(i) == i % Stride = 1 \/ Stride = 1

GrepTimesOut ==
    /\ pc = "grepping" /\ at[1] <= Len(Texts(content))
    /\ LooksBefore(at[2]) /\ expired
    /\ Answers(Error)
    /\ UNCHANGED <<args, at, found, emitted, expired, late>>

GrepLine ==
    /\ pc = "grepping" /\ at[1] <= Len(Texts(content))
    /\ ~ (LooksBefore(at[2]) /\ expired)
    /\ LET block == Texts(content)[at[1]].lines
           line == block[at[2]] IN
       /\ found' = IF line \in expr.pattern THEN Append(found, line) ELSE found
       /\ at' = IF at[2] < Len(block) THEN <<at[1], at[2] + 1>> ELSE <<at[1] + 1, 1>>
    /\ late' = late + (IF expired THEN 1 ELSE 0)
    /\ UNCHANGED <<args, pc, emitted, expired, answer>>

GrepEnds ==
    /\ pc = "grepping" /\ at[1] > Len(Texts(content))
    /\ Answers(Shown(found))
    /\ UNCHANGED <<args, at, found, emitted, expired, late>>

-----------------------------------------------------------------------------
(* jq: the pipeline (external) emits values, fails or ends, or goes on for    *)
(* ever without emitting any; it stops with an error once the context is done *)

TooMany(n) == n > MaxJQResults

JQEmits ==
    /\ pc = "iterating"
    /\ emitted' = emitted + 1
    /\ IF TooMany(emitted') THEN Answers(Error) ELSE UNCHANGED <<pc, answer>>
    /\ UNCHANGED <<args, at, found, expired, late>>

\* No result becomes null, one stands for itself, several become an array.
JQEnds ==
    /\ pc = "iterating"
    /\ Answers([kind |-> "text", lines |-> <<>>, results |-> emitted])
    /\ UNCHANGED <<args, at, found, emitted, expired, late>>

JQFails ==
    /\ pc = "iterating"
    /\ Answers(Error)
    /\ UNCHANGED <<args, at, found, emitted, expired, late>>

BugIgnoresContext == FALSE
ContextDone == expired

JQTimesOut == ContextDone /\ JQFails

Finished == pc = "done" /\ UNCHANGED vars

Next ==
    \/ Refuses \/ Cuts \/ Begins \/ Expires
    \/ GrepTimesOut \/ GrepLine \/ GrepEnds
    \/ JQEmits \/ JQEnds \/ JQFails \/ JQTimesOut
    \/ Finished

Spec == Init /\ [][Next]_vars

\* The goroutine runs and time passes; nothing makes a jq pipeline end.
FairSpec ==
    /\ Spec
    /\ WF_vars(Refuses \/ Cuts \/ Begins \/ GrepTimesOut \/ GrepLine \/ GrepEnds)
    /\ WF_vars(Expires) /\ WF_vars(JQTimesOut)

-----------------------------------------------------------------------------
(* Properties *)

\* The positions of the whole text that a form promises to show (filter.go:34-41).
Promised(e, text) ==
    { i \in DOMAIN text :
        CASE e.form = "full" -> TRUE
          [] e.form = "head" -> i <= e.n
          [] e.form = "tail" -> i > Len(text) - e.n
          [] e.form = "line" -> i = e.n + 1
          [] e.form = "grep" -> text[i] \in e.pattern }

\* Whoever pages through a content with head, tail, line or grep sees exactly
\* the lines the full text has there, over all its blocks and whether or not the
\* form is wrapped as for a shell; an answer is whole or an error, never a part,
\* and an error has one of the reasons the code gives: line 0 of a content
\* without text is out of range (filter.go:55-86,102-165,208-227).
AnswerRight ==
    LET whole == Text(AllLines(content)) IN
    /\ answer.kind = "text" /\ expr.form # "jq" /\ expr.wrap # "padded" =>
         answer.lines = Text(Select(whole, Promised(expr, whole)))
    /\ answer.kind = "text" => answer.results <= MaxJQResults
    /\ answer.kind = "error" =>
         \/ expired \/ emitted > MaxJQResults \/ Form(expr) = "jq"
         \/ ~ Valid(expr) \/ expr.n < 0 \/ ~ content.array
         \/ expr.form = "line" /\ (expr.n >= Len(whole) \/ Texts(content) = <<>>)

\* A deadline that passes while grep matches a line is noticed before it has begun
\* Stride more, however the lines are spread over blocks (filter.go:113-122).
DeadlineNoticed == late < Stride

\* Apply returns, for a jq program that emits without end or computes without
\* end as well: "protects against expressions like `range(1e9)`" (filter.go:30-31).
Returns == pc = "called" ~> pc = "done"
=============================================================================
