------------------------------- MODULE NvsLog -------------------------------
(***************************************************************************)
(* What an NVS partition under construction promises, as long as there is  *)
(* an index left for the next namespace: it holds what the setters that    *)
(* returned nil were asked to store, each value under the namespace its    *)
(* caller named and no other, in the order of the calls, and nothing of    *)
(* the setters that failed.  Once the indexes are used up it promises      *)
(* nothing any more.                                                       *)
(***************************************************************************)
EXTENDS Naturals, Sequences

CONSTANTS Names, Value

VARIABLES
    contents,       \* sequence of [under, key, val]: the namespaces under which
                    \* a reader finds the value, namely one
    request,        \* what the last setter was asked: <<namespace, key, value>>
    exhausted,      \* every index has been drawn
    result          \* of the last call: nil (TRUE) or an error

vars == <<contents, request, exhausted, result>>

Init == contents = <<>> /\ request = <<>> /\ exhausted = FALSE /\ result = TRUE

Asked == request' \in Names \X Names \X Value

\* A setter returns nil, and has stored just what it was asked to.
Set ==
    /\ Asked /\ result' = TRUE
    /\ contents' = Append(contents,
           [under |-> {request'[1]}, key |-> request'[2], val |-> request'[3]])
    /\ UNCHANGED exhausted

Fail == Asked /\ result' = FALSE /\ UNCHANGED <<contents, exhausted>>

Render == result' \in BOOLEAN /\ UNCHANGED <<contents, request, exhausted>>

\* The setter that draws one index too many, and every call after it.
Exhaust == exhausted' = TRUE

Next == Set \/ Fail \/ Render \/ Exhaust

Spec == Init /\ [][Next]_vars
=============================================================================
