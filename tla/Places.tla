------------------------------- MODULE Places -------------------------------
(* A set of places, numbers into a sequence, listed in an order that is given as the pairs of it. *)
EXTENDS Integers, FiniteSets, Sequences

IsSequence(s) == s \in Seq({s[i] : i \in DOMAIN s})

InOrder(places, before) ==
    [k \in 1..Cardinality(places) |->
        CHOOSE i \in places : Cardinality({j \in places : <<j, i>> \in before}) = k - 1]

(* The order the places come in, as they are numbered. *)
Given(places) == {x \in places \X places : x[1] < x[2]}
Sorted(places) == InOrder(places, Given(places))

(* Some of a sequence, in its order. *)
At(s, places) == [k \in 1..Cardinality(places) |-> s[Sorted(places)[k]]]
=============================================================================
