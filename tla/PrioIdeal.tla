------------------------------ MODULE PrioIdeal ------------------------------
(***************************************************************************)
(* What the two servers promise together: one party that sees every        *)
(* submission in the clear, counts it or ignores it once, and publishes    *)
(* the sum of what it counted (include/mprio.h, pclient/main.c).           *)
(***************************************************************************)
EXTENDS PrioField

CONSTANTS
    Value,       \* Value[c]: the data of submission c, one field element per data field
    DigitBound   \* totals from this value on are not published

VARIABLES
    status,      \* "pending", "counted" or "ignored", for each submission
    total,       \* the sum of the counted submissions
    published    \* the outcome of the last publication and the published totals

ivars == <<status, total, published>>

Init ==
    /\ status = [c \in DOMAIN Value |-> "pending"]
    /\ total = MPArray_new(NumFields)
    /\ published = [rv |-> "none", output |-> MPArray_new(NumFields)]

Count(c) ==
    /\ status[c] = "pending"
    /\ status' = [status EXCEPT ![c] = "counted"]
    /\ total' = MPArray_addmod(total, Value[c])
    /\ UNCHANGED published

Ignore(c) ==
    /\ status[c] = "pending"
    /\ status' = [status EXCEPT ![c] = "ignored"]
    /\ UNCHANGED <<total, published>>

(* The totals, unless one of them is too large; then no wrong total is     *)
(* published: each field holds the current total or what it held before.   *)
Publish ==
    /\ published'.rv = IF \A i \in 1 .. NumFields : total[i] < DigitBound
                       THEN "success" ELSE "failure"
    /\ published'.rv = "success" => published'.output = total
    /\ \A i \in 1 .. NumFields : published'.output[i] \in {total[i], published.output[i]}
    /\ UNCHANGED <<status, total>>

Next == (\E c \in DOMAIN Value : Count(c) \/ Ignore(c)) \/ Publish

Spec == Init /\ [][Next]_ivars
=============================================================================
