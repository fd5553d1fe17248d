---------------------------- MODULE RegexMachine ----------------------------
(***************************************************************************)
(* The matcher of rules and mail filters: packages/rules/src/regex.        *)
(*                                                                         *)
(* compile.ts turns the tree of a pattern into a program; vm.ts runs all   *)
(* threads of the program over the text at once, a character at a time, so *)
(* that no pattern can make it backtrack, and keeps them in the order a    *)
(* backtracking matcher would try them.  The parser, ignoring case and the *)
(* limits on the size of a pattern are left out.                           *)
(***************************************************************************)
EXTENDS Integers, Sequences, SequencesExt, FiniteSetsExt

CONSTANTS Patterns,  \* trees of patterns
          Texts,     \* what they are matched against
          Newlines,  \* characters that end a line
          WordChars, \* characters of words
          Budgets    \* maxSteps in use

ASSUME MatcherSetup == Budgets \subseteq Nat

VARIABLES
  pattern, text, multiline, budget,
  program,   \* what the pattern is compiled to; <<>> before
  position,  \* characters consumed
  threads,   \* clist: program counters with their saved positions, best first
  matched,   \* the saved positions of the best match yet; or NoSlots
  steps,
  answer     \* "none" yet, "found", "missing", or "refused"

regexVars == <<pattern, text, multiline, budget, program, position, threads, matched, steps, answer>>

NoSlots == <<>>
Endless == -1   \* the max of a repetition without one

-----------------------------------------------------------------------------
(* compile.ts: an instruction's address is its index *)

Split(body, past, lazy) == IF lazy THEN [op |-> "split", x |-> past, y |-> body]
                                   ELSE [op |-> "split", x |-> body, y |-> past]

RECURSIVE Emit(_, _), Alternatives(_, _)

Star(n, at) == LET body == Emit(n.node, at + 1)
               IN <<Split(at + 1, at + Len(body) + 2, n.lazy)>> \o body \o <<[op |-> "jmp", x |-> at]>>

Plus(n, at) == LET body == Emit(n.node, at)
               IN Append(body, Split(at, at + Len(body) + 1, n.lazy))

Optional(n, at) == LET body == Emit(n.node, at + 1)
                   IN <<Split(at + 1, at + Len(body) + 1, n.lazy)>> \o body

Copies(n, many, at) ==
  FoldLeft(LAMBDA code, i : code \o Emit(n.node, at + Len(code)), <<>>, [i \in 1 .. many |-> i])

Repeat(n, at) ==
  IF n.max = Endless
  THEN IF n.min = 0 THEN Star(n, at)
       ELSE LET copies == Copies(n, n.min - 1, at) IN copies \o Plus(n, at + Len(copies))
  ELSE FoldLeft(LAMBDA code, i : code \o Optional(n, at + Len(code)),
                Copies(n, n.min, at), [i \in 1 .. n.max - n.min |-> i])

Alternatives(nodes, at) ==
  IF Len(nodes) = 1 THEN Emit(nodes[1], at)
  ELSE LET body == Emit(nodes[1], at + 1)
           next == at + Len(body) + 2
           others == Alternatives(Tail(nodes), next)
       IN <<Split(at + 1, next, FALSE)>> \o body
            \o <<[op |-> "jmp", x |-> next + Len(others)]>> \o others

Emit(n, at) ==
  CASE n.kind = "empty" -> <<>>
    [] n.kind = "class" -> <<[op |-> "class", any |-> n.any]>>
    [] n.kind = "assert" -> <<[op |-> "assert", of |-> n.of]>>
    [] n.kind = "concat" -> FoldLeft(LAMBDA code, m : code \o Emit(m, at + Len(code)), <<>>, n.nodes)
    [] n.kind = "alternate" -> Alternatives(n.nodes, at)
    [] n.kind = "group" -> <<[op |-> "save", slot |-> 2 * n.index]>> \o Emit(n.node, at + 1)
                             \o <<[op |-> "save", slot |-> 2 * n.index + 1]>>
    [] n.kind = "repeat" -> Repeat(n, at)

Compiled(n) == <<[op |-> "save", slot |-> 0]>> \o Emit(n, 2)
                 \o <<[op |-> "save", slot |-> 1], [op |-> "match"]>>

\* Whether every way through the pattern begins with "^".
RECURSIVE StartsAnchored(_)
StartsAnchored(n) ==
  CASE n.kind = "assert" -> n.of = "start"
    [] n.kind = "group" -> StartsAnchored(n.node)
    [] n.kind = "concat" -> n.nodes # <<>> /\ StartsAnchored(n.nodes[1])
    [] n.kind = "alternate" -> \A i \in DOMAIN n.nodes : StartsAnchored(n.nodes[i])
    [] n.kind = "repeat" -> n.min > 0 /\ StartsAnchored(n.node)
    [] OTHER -> FALSE

-----------------------------------------------------------------------------
(* vm.ts; position p lies between the characters text[p] and text[p + 1] *)

IsWord(i) == i \in DOMAIN text /\ text[i] \in WordChars

Holds(of, p) ==
  CASE of = "start" -> p = 0 \/ (multiline /\ text[p] \in Newlines)
    [] of = "end" -> p = Len(text) \/ (multiline /\ text[p + 1] \in Newlines)
    [] of = "word" -> IsWord(p) # IsWord(p + 1)
    [] of = "inword" -> IsWord(p) = IsWord(p + 1)

\* The threads reached from the first of `todo` without consuming anything, best first; no
\* instruction is visited twice at one position.
RECURSIVE Follow(_, _, _, _)
Follow(code, todo, p, into) ==
  IF todo = <<>> THEN into
  ELSE LET t == Head(todo)
           rest == Tail(todo)
           inst == code[t.pc]
           To(x) == [t EXCEPT !.pc = x]
           seen == [into EXCEPT !.visited = @ \cup {t.pc}, !.spent = @ + 1]
       IN IF t.pc \in into.visited THEN Follow(code, rest, p, into)
          ELSE CASE inst.op = "jmp" -> Follow(code, <<To(inst.x)>> \o rest, p, seen)
                 [] inst.op = "split" -> Follow(code, <<To(inst.x), To(inst.y)>> \o rest, p, seen)
                 [] inst.op = "save" ->
                      Follow(code, <<[pc |-> t.pc + 1, slots |-> [t.slots EXCEPT ![inst.slot] = p]]>> \o rest,
                             p, seen)
                 [] inst.op = "assert" ->
                      Follow(code, IF Holds(inst.of, p) THEN <<To(t.pc + 1)>> \o rest ELSE rest, p, seen)
                 [] OTHER -> Follow(code, rest, p, [seen EXCEPT !.list = Append(@, t)])

\* Mutant: the visited instructions are forgotten for every thread that is added.
AddThreadForgetting(code, into, pc, p, slots) ==
  Follow(code, <<[pc |-> pc, slots |-> slots]>>, p, [into EXCEPT !.visited = {}])

AddThread(code, into, pc, p, slots) == Follow(code, <<[pc |-> pc, slots |-> slots]>>, p, into)

EmptyList(spent) == [list |-> <<>>, visited |-> {}, spent |-> spent]

Slots(code) == {0, 1} \cup {code[i].slot : i \in {j \in DOMAIN code : code[j].op = "save"}}
Unsaved(code) == [s \in Slots(code) |-> -1]

\* Mutant: "^" pins the search although it also holds after a line break.
CanSlideNever == ~StartsAnchored(pattern)

CanSlide == ~StartsAnchored(pattern) \/ multiline

\* What the threads become by the next character: those behind one that matches are cut, and
\* a new one begins here unless something has matched.
Advanced(hit) ==
  LET c == threads[hit]
      running == IF hit = 0 THEN threads ELSE SubSeq(threads, 1, hit - 1)
      one(into, t) ==
        IF position < Len(text) /\ text[position + 1] \in program[t.pc].any
        THEN AddThread(program, [into EXCEPT !.spent = @ + 1], t.pc + 1, position + 1, t.slots)
        ELSE [into EXCEPT !.spent = @ + 1]
      consumed == FoldLeft(one, EmptyList(steps + IF hit = 0 THEN 0 ELSE 1), running)
  IN IF hit = 0 /\ matched = NoSlots /\ CanSlide /\ position < Len(text)
     THEN AddThread(program, consumed, 1, position + 1, Unsaved(program))
     ELSE consumed

BeginMatch ==
  /\ program = <<>>
  /\ program' = Compiled(pattern)
  /\ LET first == AddThread(Compiled(pattern), EmptyList(0), 1, 0, Unsaved(Compiled(pattern)))
     IN /\ threads' = first.list
        /\ steps' = first.spent
        /\ answer' = IF first.spent > budget THEN "refused" ELSE "none"
  /\ UNCHANGED <<pattern, text, multiline, budget, position, matched>>

Advance ==
  /\ program # <<>> /\ answer = "none"
  /\ LET hit == SelectInSeq(threads, LAMBDA t : program[t.pc].op = "match")
         next == Advanced(hit)
         best == IF hit = 0 THEN matched ELSE threads[hit].slots
         over == \/ position = Len(text)
                 \/ next.list = <<>> /\ (best # NoSlots \/ ~CanSlide)
     IN /\ matched' = best
        /\ threads' = next.list
        /\ steps' = next.spent
        /\ position' = position + 1
        /\ answer' = IF next.spent > budget THEN "refused"
                     ELSE IF ~over THEN "none"
                     ELSE IF best = NoSlots THEN "missing" ELSE "found"
  /\ UNCHANGED <<pattern, text, multiline, budget, program>>

\* The clock, which is read every so many steps and before the match is handed out.
Expire == /\ program # <<>> /\ answer \in {"none", "found"}
          /\ answer' = "refused"
          /\ UNCHANGED <<pattern, text, multiline, budget, program, position, threads, matched, steps>>

RegexInit == /\ pattern \in Patterns /\ text \in Texts /\ multiline \in BOOLEAN /\ budget \in Budgets
             /\ program = <<>> /\ position = 0 /\ threads = <<>> /\ matched = NoSlots
             /\ steps = 0 /\ answer = "none"

RegexNext == BeginMatch \/ Advance \/ Expire

-----------------------------------------------------------------------------
(* What a pattern means: where its matches may end, and, as a backtracking *)
(* matcher tries them, which comes first with which groups.                *)

\* Ends(n, p): the positions at which a match of n that begins at p may end.
RECURSIVE Ends(_, _)
Ends(n, p) ==
  LET after(ps) == UNION {Ends(n.node, q) : q \in ps}
      rounds[k \in Nat] == IF k = 0 THEN {p} ELSE after(rounds[k - 1])
  IN CASE n.kind = "empty" -> {p}
       [] n.kind = "class" -> IF p < Len(text) /\ text[p + 1] \in n.any THEN {p + 1} ELSE {}
       [] n.kind = "assert" -> IF Holds(n.of, p) THEN {p} ELSE {}
       [] n.kind = "concat" -> FoldLeft(LAMBDA ps, m : UNION {Ends(m, q) : q \in ps}, {p}, n.nodes)
       [] n.kind = "alternate" -> UNION {Ends(n.nodes[i], p) : i \in DOMAIN n.nodes}
       [] n.kind = "group" -> Ends(n.node, p)
       [] n.kind = "repeat" -> UNION {rounds[k] : k \in n.min .. IF n.max = Endless THEN n.min + Len(text) + 1 ELSE n.max}

\* Ways(n, w): the ways on from w, which is a position with what is saved, best first.
RECURSIVE Ways(_, _), Rounds(_, _, _)
Ways(n, w) ==
  LET each(ws, m) == FlattenSeq([i \in DOMAIN ws |-> Ways(m, ws[i])])
      save(v, slot) == [v EXCEPT !.slots[slot] = v.at]
      inside == Ways(n.node, save(w, 2 * n.index))
  IN CASE n.kind = "class" -> IF Ends(n, w.at) = {} THEN <<>> ELSE <<[w EXCEPT !.at = @ + 1]>>
       [] n.kind \in {"empty", "assert"} -> IF Ends(n, w.at) = {} THEN <<>> ELSE <<w>>
       [] n.kind = "concat" -> FoldLeft(each, <<w>>, n.nodes)
       [] n.kind = "alternate" -> FlattenSeq([i \in DOMAIN n.nodes |-> Ways(n.nodes[i], w)])
       [] n.kind = "group" -> [i \in DOMAIN inside |-> save(inside[i], 2 * n.index + 1)]
       [] n.kind = "repeat" -> Rounds(n, w, 0)

\* k rounds are done.
Rounds(n, w, k) ==
  LET once == Ways(n.node, w)
      more == IF k = n.max THEN <<>>
              ELSE FlattenSeq([i \in DOMAIN once |-> Rounds(n, once[i], k + 1)])
      done == IF k < n.min THEN <<>> ELSE <<w>>
  IN IF n.lazy THEN done \o more ELSE more \o done

RECURSIVE MayBeEmpty(_), Plain(_)
MayBeEmpty(n) ==
  CASE n.kind = "class" -> FALSE
    [] n.kind = "concat" -> \A i \in DOMAIN n.nodes : MayBeEmpty(n.nodes[i])
    [] n.kind = "alternate" -> \E i \in DOMAIN n.nodes : MayBeEmpty(n.nodes[i])
    [] n.kind = "group" -> MayBeEmpty(n.node)
    [] n.kind = "repeat" -> n.min = 0 \/ MayBeEmpty(n.node)
    [] OTHER -> TRUE

\* Nothing that may be empty is repeated endlessly: what an empty round saves is where the
\* machine and a backtracking matcher part.
Plain(n) ==
  CASE n.kind \in {"concat", "alternate"} -> \A i \in DOMAIN n.nodes : Plain(n.nodes[i])
    [] n.kind = "group" -> Plain(n.node)
    [] n.kind = "repeat" -> Plain(n.node) /\ (n.max = Endless => ~MayBeEmpty(n.node))
    [] OTHER -> TRUE

-----------------------------------------------------------------------------
(* Properties *)

RegexTypeOK ==
  /\ pattern \in Patterns /\ text \in Texts /\ multiline \in BOOLEAN /\ budget \in Budgets
  /\ position \in 0 .. Len(text) + 1 /\ steps \in Nat
  /\ answer \in {"none", "found", "missing", "refused"}
  /\ \A i \in DOMAIN threads : program[threads[i].pc].op \in {"class", "match"}

\* What is found begins at the first place where the pattern matches at all, ends where the
\* pattern may end, and is, with its groups, what a backtracking matcher finds (vm.ts:8 "the
\* leftmost-first submatch semantics a rule author expects"); nothing is found only where there
\* is nothing.
MatchIsRight ==
  LET places == {p \in 0 .. Len(text) : Ends(pattern, p) # {}}
      first == Min(places)
      best == Head(Ways(pattern, [at |-> first, slots |-> [Unsaved(program) EXCEPT ![0] = first]]))
  IN /\ RegexTypeOK
     /\ answer = "missing" => places = {}
     /\ answer = "found" => /\ places # {}
                            /\ matched[0] = first /\ matched[1] \in Ends(pattern, first)
                            /\ Plain(pattern) => matched = [best.slots EXCEPT ![1] = best.at]

\* No instruction holds two threads at one position, so that the work is bounded by the length of
\* the text times that of the program, whatever the pattern (vm.ts:4).
WorkIsLinear ==
  /\ \A i, j \in DOMAIN threads : i # j => threads[i].pc # threads[j].pc
  /\ steps <= 2 * (Len(text) + 1) * Len(program)
=============================================================================
