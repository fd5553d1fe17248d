------------------------------- MODULE MCStages ------------------------------
(***************************************************************************)
(* Instances of Stages for TLC.                                            *)
(***************************************************************************)
EXTENDS Stages

-----------------------------------------------------------------------------
(* A zip with two members of one name, a message with an attachment and a  *)
(* zip with a file in it.                                                  *)

CONSTANTS zip, page, other, mail, note, box, deep

Parcel == {zip, page, other, mail, note, box, deep}
ParcelInside == [n \in Parcel |-> CASE n = zip -> {} [] n = note -> {zip, mail}
                                    [] n = deep -> {zip, box} [] OTHER -> {zip}]
ParcelOrder == (zip :> 1) @@ (page :> 1) @@ (other :> 2) @@ (mail :> 3) @@ (box :> 4)
                 @@ (note :> 1) @@ (deep :> 1)
ParcelName == (zip :> <<"z">>) @@ (page :> <<"x">>) @@ (other :> <<".", "x">>)
                @@ (mail :> <<"m">>) @@ (box :> <<"b">>) @@ (note :> <<"n">>) @@ (deep :> <<"d">>)
ParcelKind == [n \in Parcel |-> CASE n \in {zip, box} -> "zip" [] n = mail -> "eml" [] OTHER -> "file"]
ParcelSize == [n \in Parcel |-> IF n = note THEN 2 ELSE 1]

\* page and other have one name, and none has a positional one.
ASSUME ParcelNamesKeepOff == \A n \in Parcel : Apart(n)

-----------------------------------------------------------------------------
(* Patterns over two letters and a line break.                             *)

CONSTANTS la, lb, eol

Class(cs) == [kind |-> "class", any |-> cs]
Assertion(of) == [kind |-> "assert", of |-> of]
Concat(ns) == [kind |-> "concat", nodes |-> ns]
Either(m, n) == [kind |-> "alternate", nodes |-> <<m, n>>]
Group(i, n) == [kind |-> "group", index |-> i, node |-> n]
Repeated(n, least, most, lazy) == [kind |-> "repeat", node |-> n, min |-> least, max |-> most, lazy |-> lazy]
Nil == [kind |-> "empty"]
A == Class({la})
B == Class({lb})

Expressions == {
  Nil,
  \* (a+)+$  (a|a)*b  (a|ab)(b?)  (a??)([ab]*?)b
  Concat(<<Repeated(Group(1, Repeated(A, 1, Endless, FALSE)), 1, Endless, FALSE), Assertion("end")>>),
  Concat(<<Repeated(Either(A, A), 0, Endless, FALSE), B>>),
  Concat(<<Group(1, Either(A, Concat(<<A, B>>))), Group(2, Repeated(B, 0, 1, FALSE))>>),
  Concat(<<Group(1, Repeated(A, 0, 1, TRUE)), Group(2, Repeated(Class({la, lb}), 0, Endless, TRUE)), B>>),
  \* ^b|^(a)$  (^)*b  ^(.{2,}?)\b  \ba{2,3}?\B  (a|b){1,2}
  Either(Concat(<<Assertion("start"), B>>), Concat(<<Assertion("start"), Group(1, A), Assertion("end")>>)),
  Concat(<<Repeated(Assertion("start"), 0, Endless, FALSE), B>>),
  Concat(<<Assertion("start"), Group(1, Repeated(Class({la, lb, eol}), 2, Endless, TRUE)), Assertion("word")>>),
  Concat(<<Assertion("word"), Repeated(A, 2, 3, TRUE), Assertion("inword")>>),
  Repeated(Group(1, Either(A, B)), 1, 2, FALSE),
  \* (a?)*b  (|a)+$, of which only what is matched is compared
  Concat(<<Repeated(Group(1, Repeated(A, 0, 1, FALSE)), 0, Endless, FALSE), B>>),
  Concat(<<Repeated(Group(1, Either(Nil, A)), 1, Endless, FALSE), Assertion("end")>>)}

Lines == UNION {[1 .. n -> {la, lb, eol}] : n \in 0 .. 3} \cup {<<la, la, la, la, la>>, <<la, lb, la, lb, lb>>}

-----------------------------------------------------------------------------
(* Rules over three matchers.                                              *)

CONSTANTS m1, m2, m3

Leaf(l) == [kind |-> "leaf", leaf |-> l]
AllOf(cs) == [kind |-> "all", of |-> cs]
SomeOf(cs) == [kind |-> "any", of |-> cs]
Not(c) == [kind |-> "not", of |-> c]

Set(field, value) == [type |-> "set", field |-> field, value |-> value, needs |-> {}]
SetFrom(l, value) == [type |-> "set", field |-> "itemType", value |-> value, needs |-> {l}]
Review(needs) == [type |-> "review", needs |-> needs]
StopHere == [type |-> "stop", needs |-> {}]

Rule(priority, when, then) == [priority |-> priority, when |-> when, then |-> then, last |-> FALSE]
Invoice == Set("itemType", "invoice")
Letter == Set("itemType", "letter")

Catalogues == {
  <<Rule(1, SomeOf(<<AllOf(<<Leaf(m1), Leaf(m2)>>), Not(Leaf(m3))>>), <<Invoice>>),
    Rule(1, Leaf(m2), <<Letter, Set("confidence", "high")>>)>>,
  <<Rule(1, Not(AllOf(<<Leaf(m1), Not(Leaf(m2))>>)), <<Invoice, StopHere, Letter>>),
    Rule(2, SomeOf(<<Leaf(m3), Leaf(m1)>>), <<SetFrom(m1, "letter"), Review({m3})>>)>>,
  <<Rule(2, Leaf(m1), <<Letter>>), Rule(3, AllOf(<<Leaf(m2), Leaf(m3)>>), <<Invoice>>),
    Rule(1, Not(Not(Not(Leaf(m3)))), <<Review({})>>)>>,
  <<Rule(1, AllOf(<<Leaf(m1), Leaf(m2)>>), <<Letter, Set("confidence", "low")>>),
    Rule(1, Leaf(m3), <<Set("confidence", "high"), Letter>>)>>}

Clauses1 == Rule(1, AllOf(<<Leaf(m1), Leaf(m2)>>), <<Invoice>>)
Clauses2 == Rule(2, AllOf(<<Leaf(m3)>>), <<Letter>>)

Books ==
  {[engine |-> "server", mode |-> "all-match", rules |-> c] : c \in Catalogues}
  \cup {[engine |-> "command", mode |-> m, rules |-> c] : m \in {"all-match", "first-match"}, c \in Catalogues}
  \cup {[engine |-> "builtin", mode |-> "all-match", rules |-> r] :
          r \in {<<Clauses1, [Clauses2 EXCEPT !.last = l, !.then = @ \o more]>> :
                   l \in BOOLEAN, more \in {<<>>, <<Review({})>>, <<StopHere>>}}}
=============================================================================
