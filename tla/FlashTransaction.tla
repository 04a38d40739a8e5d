-------------------------- MODULE FlashTransaction --------------------------
(****************************************************************************)
(* What a transfer of the QSPI driver promises: between one selection of    *)
(* the flash and the end of it, exactly the bytes asked for pass over the   *)
(* wire, in order, and when the transfer returns every byte received is at  *)
(* its place in the buffer.                                                 *)
(****************************************************************************)
EXTENDS Naturals, FiniteSets, Sequences

CONSTANTS Requests,        \* the wire traffic each transfer may ask for
          IsReceived(_),   \* the bytes of it that come from the flash
          MaxBuffer        \* size of the buffer

VARIABLES asked, wire, selected, buffer

vars == <<asked, wire, selected, buffer>>

Received(traffic) == Cardinality({p \in DOMAIN traffic : IsReceived(traffic[p])})

Empty == [i \in 1..MaxBuffer |-> 0]

Init == asked = <<>> /\ wire = <<>> /\ selected = FALSE /\ buffer = Empty

Ask ==
  /\ asked = <<>>
  /\ asked' \in Requests /\ buffer' = Empty
  /\ UNCHANGED <<wire, selected>>

Select ==
  /\ asked # <<>> /\ ~selected
  /\ selected' = TRUE /\ wire' = <<>>
  /\ UNCHANGED <<asked, buffer>>

Clock ==
  /\ selected
  /\ \E n \in (Len(wire) + 1)..Len(asked) : wire' = SubSeq(asked, 1, n)
  /\ UNCHANGED <<asked, selected, buffer>>

(* Byte i of the flash goes to place i, after it was clocked. *)
Deliver ==
  /\ asked # <<>>
  /\ DOMAIN buffer' = 1..MaxBuffer
  /\ \A i \in 1..MaxBuffer :
       buffer'[i] = buffer[i] \/ (buffer'[i] = i /\ i <= Received(wire))
  /\ UNCHANGED <<asked, wire, selected>>

Deselect ==
  /\ selected /\ wire = asked
  /\ selected' = FALSE
  /\ UNCHANGED <<asked, wire, buffer>>

Return ==
  /\ asked # <<>> /\ wire = asked /\ ~selected
  /\ \A i \in 1..Received(asked) : buffer[i] = i
  /\ asked' = <<>>
  /\ UNCHANGED <<wire, selected, buffer>>

Next == Ask \/ Select \/ Clock \/ Deliver \/ Deselect \/ Return

Spec == Init /\ [][Next]_vars
=============================================================================
