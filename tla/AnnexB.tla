------------------------------- MODULE AnnexB -------------------------------
(***************************************************************************)
(* The elementary stream of a video track: Writer of                       *)
(* core/crates/adiungere-fingerprint/src/annex_b.rs, which turns length    *)
(* prefixes into start codes and inserts parameter sets unit by unit, and  *)
(* the rule its documentation states, as a definition over whole samples.  *)
(*                                                                         *)
(* A unit has a type, what its bytes are, and whether it opens a picture   *)
(* (its first macroblock is zero).  A unit of type "torn" is a length      *)
(* prefix that runs past the sample.  A configuration holds the units of   *)
(* its sequence and its picture parameter sets.                            *)
(***************************************************************************)
EXTENDS Integers, Sequences, FiniteSets, SequencesExt

Coded(unit, four) == [unit |-> unit, four |-> four]

-----------------------------------------------------------------------------
(* The writer. *)

NewWriter ==
    [out |-> <<>>, insertions |-> 0, newRefresh |-> TRUE,
     spsSeen |-> FALSE, ppsSeen |-> FALSE, begun |-> FALSE]

(* emit: the first output of a sample has a four-byte start code; parameter_sets: so has every inserted set. *)
Emit(w, unit) ==
    [w EXCEPT !.out = Append(@, Coded(unit, ~w.begun)), !.begun = TRUE]
CodedSets(sets) == [i \in DOMAIN sets |-> Coded(sets[i], TRUE)]
ParameterSets(w, sets) == [w EXCEPT !.out = @ \o CodedSets(sets), !.begun = @ \/ sets # <<>>]

OpenAccessUnit(w) == [w EXCEPT !.spsSeen = FALSE, !.ppsSeen = FALSE, !.begun = FALSE]

(* What the unit tells before it is written. *)
Noted(w, unit) ==
    [w EXCEPT
     !.spsSeen = @ \/ unit.type = "sps",
     !.ppsSeen = @ \/ unit.type = "pps",
     !.newRefresh = @ \/ unit.type \in {"sps", "pps"} \/ (unit.type = "refresh" /\ unit.opens)]

Inserted(w, unit, configuration) ==
    IF ~w.newRefresh \/ unit.type # "refresh" \/ w.ppsSeen THEN w
    ELSE IF w.spsSeen THEN ParameterSets(w, configuration.picture)
    ELSE [ParameterSets(ParameterSets(w, configuration.sequence), configuration.picture) EXCEPT
            !.insertions = @ + 1, !.newRefresh = FALSE]

WriteEverySlice(w, unit, configuration) ==
    Emit([Inserted(Noted(w, unit), unit, configuration) EXCEPT !.newRefresh = TRUE], unit)
WriteUnit(w, unit, configuration) == Emit(Inserted(Noted(w, unit), unit, configuration), unit)

(* units_of: a sample that does not split under the declared prefix is an error. *)
Splits(sample) == \A i \in DOMAIN sample : sample[i].type # "torn"

-----------------------------------------------------------------------------
(* The rule.  Units are numbered through the stream; a unit has a place in its sample. *)

Numbered(samples) ==
    FlattenSeq([s \in DOMAIN samples |->
        [i \in DOMAIN samples[s] |-> [sample |-> s, place |-> i, unit |-> samples[s][i]]]])

(* "A refresh picture is new at the start of the stream, after any parameter set unit, and at any refresh
   slice whose first macroblock is zero", until it "has had its insertion"; "unless a sequence or picture
   parameter set already appeared in the same sample", every set of the configuration is inserted. *)
EarlierInSample(all, n, types) ==
    \E m \in 1..(n - 1) : all[m].sample = all[n].sample /\ all[m].unit.type \in types
NewAt(all, n, full) ==
    \/ all[n].unit.opens
    \/ \E r \in 0..(n - 1) :
         /\ r = 0 \/ all[r].unit.type \in {"sps", "pps"}
         /\ \A m \in (r + 1)..(n - 1) : ~full[m]
InsertionsAt(all) ==
    LET full[n \in 1..Len(all)] ==
          /\ all[n].unit.type = "refresh"
          /\ NewAt(all, n, full)
          /\ ~EarlierInSample(all, n, {"sps", "pps"})
    IN full

(* "Before the first refresh slice": "if only a sequence parameter set appeared in the sample, the picture
   parameter sets alone are written". *)
PicturesAloneAt(all, full, n) ==
    /\ all[n].unit.type = "refresh"
    /\ NewAt(all, n, full)
    /\ EarlierInSample(all, n, {"sps"})
    /\ ~EarlierInSample(all, n, {"pps"})
    /\ \A m \in 1..(n - 1) :
         all[m].sample = all[n].sample /\ all[m].unit.type = "refresh" => ~EarlierInSample(all, m, {"sps"})

RuleStream(samples, configuration) ==
    LET all == Numbered(samples)
        full == InsertionsAt(all)
        sets(n) == IF full[n] THEN configuration.sequence \o configuration.picture
                   ELSE IF PicturesAloneAt(all, full, n) THEN configuration.picture ELSE <<>>
    IN FlattenSeq([n \in DOMAIN all |->
         CodedSets(sets(n)) \o <<Coded(all[n].unit, all[n].place = 1 /\ sets(n) = <<>>)>>])

(* A refresh picture of several slices after a sequence parameter set of its own, and no picture parameter
   set: the writer puts the picture parameter sets before each slice, the rule before the first. *)
SlicedAfterItsSequenceSet(samples) ==
    \E s \in DOMAIN samples : \E i, j \in DOMAIN samples[s] :
        /\ i < j /\ samples[s][i].type = "refresh" /\ samples[s][j].type = "refresh"
        /\ \E k \in 1..(i - 1) : samples[s][k].type = "sps"
        /\ \A k \in 1..(j - 1) : samples[s][k].type # "pps"
=============================================================================
