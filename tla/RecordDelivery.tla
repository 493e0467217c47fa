-------------------------- MODULE RecordDelivery --------------------------
(***************************************************************************)
(* What TN3270EStream promises about the delivery of screens, without      *)
(* sequence numbers, a map, or a cap.  Each display (one call of sendall)  *)
(* is sent once; under RESPONSES it is outstanding until it is settled,    *)
(* by an acknowledgement, by the server giving up, or because a later      *)
(* record took its place.  Only an outstanding display is ever sent again, *)
(* at most MaxRetries times; a settled one never becomes outstanding       *)
(* again; and the record that was just sent is the one thing that making   *)
(* room never costs.                                                       *)
(***************************************************************************)
EXTENDS Integers, Sequences

CONSTANTS MaxRetries    \* retransmissions of one display

VARIABLES
  acknowledged,  \* do clients acknowledge records in this session?
  copies,        \* copies[k]: how often the k-th display was sent
  outstanding    \* the displays that may still be sent again

deliveryVars == <<acknowledged, copies, outstanding>>

Init ==
  /\ acknowledged \in BOOLEAN
  /\ copies = <<>>
  /\ outstanding = {}

\* After display k was sent, at most one other display is forgotten.
Track(k) ==
  \/ outstanding' = outstanding \cup {k}
  \/ \E lost \in outstanding \ {k} :
       outstanding' = (outstanding \cup {k}) \ {lost}

Display ==
  /\ copies' = Append(copies, 1)
  /\ IF acknowledged
     THEN Track(Len(copies) + 1)
     ELSE UNCHANGED outstanding
  /\ UNCHANGED acknowledged

SendAgain(k) ==
  /\ copies[k] <= MaxRetries
  /\ copies' = [copies EXCEPT ![k] = @ + 1]
  /\ Track(k)
  /\ UNCHANGED acknowledged

Forget(k) ==
  /\ outstanding' = outstanding \ {k}
  /\ UNCHANGED <<acknowledged, copies>>

Next ==
  \/ Display
  \/ \E k \in outstanding : SendAgain(k) \/ Forget(k)

Spec == Init /\ [][Next]_deliveryVars
=============================================================================
