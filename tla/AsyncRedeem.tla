---------------------------- MODULE AsyncRedeem ----------------------------
(***************************************************************************)
(* What the vault promises of an asynchronous redemption (ERC-7540 with    *)
(* cancellation), per controller and without prices or token balances:     *)
(*                                                                         *)
(*   none --request--> requested --cancel--> cancelling --grant--> cancelled*)
(*                        |                      |                     |    *)
(*                      fulfil                 fulfil              take back*)
(*                        v                      v                     v    *)
(*                       none                   none                  none  *)
(*                                                                         *)
(* Shares that were locked leave the lock exactly once and all together:   *)
(* redeemed for assets that become owed, or taken back.  A granted         *)
(* cancellation can no longer be redeemed, a cancellation that was asked   *)
(* for blocks further requests, and what is owed shrinks only by claims.   *)
(***************************************************************************)
EXTENDS Naturals

CONSTANT Controllers

VARIABLES
  phase,    \* where the redemption of each controller stands
  locked,   \* shares locked for it
  owed      \* assets the controller may claim

redeemVars == <<phase, locked, owed>>

Phases == {"none", "requested", "cancelling", "cancelled"}

RedeemTypeOK ==
  /\ phase \in [Controllers -> Phases]
  /\ locked \in [Controllers -> Nat]
  /\ owed \in [Controllers -> Nat]

RedeemInit ==
  /\ phase = [c \in Controllers |-> "none"]
  /\ locked = [c \in Controllers |-> 0]
  /\ owed = [c \in Controllers |-> 0]

Request(c) ==
  /\ phase[c] \in {"none", "requested"}
  /\ phase' = [phase EXCEPT ![c] = "requested"]
  /\ locked' \in [Controllers -> Nat]
  /\ locked'[c] > locked[c]
  /\ \A d \in Controllers \ {c} : locked'[d] = locked[d]
  /\ UNCHANGED owed

AskCancel(c) ==
  /\ phase[c] = "requested"
  /\ phase' = [phase EXCEPT ![c] = "cancelling"]
  /\ UNCHANGED <<locked, owed>>

(* Any controllers that are cancelling may be granted in one batch.        *)
GrantCancels ==
  /\ \A c \in Controllers :
       phase'[c] # phase[c] => phase[c] = "cancelling" /\ phase'[c] = "cancelled"
  /\ phase' \in [Controllers -> Phases]
  /\ UNCHANGED <<locked, owed>>

TakeBack(c) ==
  /\ phase[c] = "cancelled"
  /\ phase' = [phase EXCEPT ![c] = "none"]
  /\ locked' = [locked EXCEPT ![c] = 0]
  /\ UNCHANGED owed

(* A batch of redemptions: each is paid whole, whatever it pays.           *)
Fulfil(S) ==
  /\ \A c \in S : phase[c] \in {"requested", "cancelling"}
  /\ phase' = [c \in Controllers |-> IF c \in S THEN "none" ELSE phase[c]]
  /\ locked' = [c \in Controllers |-> IF c \in S THEN 0 ELSE locked[c]]
  /\ owed' \in [Controllers -> Nat]
  /\ \A c \in Controllers : IF c \in S THEN owed'[c] >= owed[c] ELSE owed'[c] = owed[c]

ClaimOwed(c) ==
  /\ owed' \in [Controllers -> Nat]
  /\ owed'[c] < owed[c]
  /\ \A d \in Controllers \ {c} : owed'[d] = owed[d]
  /\ UNCHANGED <<phase, locked>>

RedeemNext ==
  \/ GrantCancels
  \/ \E c \in Controllers : Request(c) \/ AskCancel(c) \/ TakeBack(c) \/ ClaimOwed(c)
  \/ \E S \in SUBSET Controllers : Fulfil(S)

RedeemSpec == RedeemInit /\ [][RedeemNext]_redeemVars

-----------------------------------------------------------------------------
(* What a controller may rely on.                                          *)

(* Shares are locked exactly while a redemption is under way.              *)
LockedWhileUnderWay == \A c \in Controllers : locked[c] > 0 <=> phase[c] # "none"

(* Locked shares leave at once and for good, and what is owed grows only   *)
(* for shares that leave with it: none is redeemed twice, or redeemed      *)
(* although its cancellation has been granted.                             *)
SettledOnce(c) ==
  /\ locked'[c] < locked[c] => locked'[c] = 0 /\ phase'[c] = "none"
  /\ owed'[c] > owed[c] => locked[c] > 0 /\ locked'[c] = 0 /\ phase[c] # "cancelled"
  /\ phase[c] = "cancelled" => phase'[c] = "cancelled" \/ locked'[c] = 0

EachSettledOnce == [][\A c \in Controllers : SettledOnce(c)]_redeemVars
=============================================================================
