------------------------------ MODULE OwnerSeat -------------------------------
(***************************************************************************)
(* What the administration promises about the owner's seat: it is empty    *)
(* only before the first account is active, it then always has exactly one *)
(* holder, the holder is active, and it moves only to an active account.   *)
(***************************************************************************)
CONSTANTS Accounts, Nobody

VARIABLES seat, active

Init == /\ active \subseteq Accounts
        /\ IF active = {} THEN seat = Nobody ELSE seat \in active

Claim == /\ seat = Nobody
         /\ seat' \in Accounts
         /\ active' = {seat'}

\* Others come and go; the holder stays.
Membership == /\ seat # Nobody
              /\ active' \in SUBSET Accounts
              /\ seat \in active'
              /\ UNCHANGED seat

HandOver == /\ seat' \in active \ {seat}
            /\ UNCHANGED active

Next == Claim \/ Membership \/ HandOver

Spec == Init /\ [][Next]_<<seat, active>>
===============================================================================
