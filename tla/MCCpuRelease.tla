--------------------------- MODULE MCCpuRelease ---------------------------
(* Handoff lists for TLC. *)
EXTENDS CpuRelease, SequencesExt

Entries(vectors) ==
  {[cpu |-> c, exec |-> x, entry |-> [hi |-> 1, lo |-> 2], vector |-> v] :
     c \in Cpus, x \in {"AA64", "AA32"}, v \in vectors}

(* Lists name a processor once (HandoffListOK), and the RPU as a pair or by its
   cores. *)
Sensible(s) ==
  /\ \A i, j \in DOMAIN s : i # j => s[i].cpu # s[j].cpu
  /\ \A i, j \in DOMAIN s : s[i].cpu = "R5_L" => s[j].cpu \notin {"R5_0", "R5_1"}
  /\ \A i \in DOMAIN s : s[i].cpu \in R5Cpus => s[i].exec = "AA32"

(* All lists of up to three entries for which the vectors agree, and one that
   names most processors. *)
ShortLists ==
  UNION {{[entries |-> s, vector |-> v] :
            s \in {t \in BoundedSeq(Entries({v}), 3) : Sensible(t)}} : v \in 0..1}

Of(cpu, exec) == [cpu |-> cpu, exec |-> exec, entry |-> [hi |-> 1, lo |-> 2], vector |-> 1]
LongList ==
  <<Of("R5_1", "AA32"), Of("A53_2", "AA64"), Of("R5_0", "AA32"), Of("A53_1", "AA32"),
    Of("A53_3", "AA32"), Of("A53_0", "AA64")>>

ManyLists == ShortLists \cup {[entries |-> LongList, vector |-> 1]}

(* Two programs with different vectors. *)
MixedVectors ==
  {[entries |-> <<Of("R5_0", "AA32"), [Of("A53_1", "AA32") EXCEPT !.vector = 0]>>,
    vector |-> 0]}
=============================================================================
