-------------------------- MODULE RefundContract --------------------------
(***************************************************************************)
(* What the refund tool promises its caller, without database, ledger or   *)
(* fault injector (env/tools.py issue_refund as the agent experiences it): *)
(* an answer may be lost or refused, but a payment under a key is made at  *)
(* most once, and a success names a payment that was made as asked.  In a  *)
(* case that may lie the tool is under a lying fault of env/faults.py.     *)
(***************************************************************************)
EXTENDS Integers

CONSTANTS
  Orders, Keys,
  AskedOrders, AskedAmounts, \* what a call may ask for
  Idempotent                 \* the tool honours keys

VARIABLES
  paid, \* the payments made
  told, \* the answers given, one per refund call
  lies  \* whether the case has a phantom, drift, misroute or partial fault

contractVars == <<paid, told, lies>>

Payment == [id : Nat \ {0}, key : Keys, order : Orders, amount : Nat \ {0}]

Told == [call : Nat \ {0}, key : Keys, order : AskedOrders, amount : AskedAmounts,
         ok : BOOLEAN, ref : Int]

AsAsked(p, r) == p.key = r.key /\ p.order = r.order /\ p.amount = r.amount

(* Answers arrive in the order of the calls. *)
Answered(r) ==
  /\ r \in Told
  /\ \A q \in told : q.call < r.call
  /\ told' = told \cup {r}

(* A payment is made, whether its answer says so or was lost. *)
Pay(r, p) ==
  /\ Answered(r)
  /\ p \in Payment /\ p.key = r.key
  /\ \A q \in paid : q.id < p.id
  /\ Idempotent => \A q \in paid : q.key # r.key
  /\ ~lies => AsAsked(p, r)
  /\ r.ok => r.ref = p.id
  /\ paid' = paid \cup {p}

(* An earlier payment is confirmed to a caller who asks again. *)
Confirm(r) ==
  /\ Idempotent
  /\ Answered(r) /\ r.ok
  /\ \E p \in paid : AsAsked(p, r) /\ r.ref = p.id
  /\ UNCHANGED paid

Refuse(r) ==
  /\ Answered(r) /\ ~r.ok
  /\ UNCHANGED paid

(* A success that names no payment. *)
Lie(r) ==
  /\ lies
  /\ Answered(r) /\ r.ok
  /\ \A p \in paid : p.id # r.ref
  /\ UNCHANGED paid

ContractInit == paid = {} /\ told = {} /\ lies \in BOOLEAN

ContractNext ==
  /\ UNCHANGED lies
  /\ \E r \in told' \ told :
       \/ Confirm(r)
       \/ Refuse(r)
       \/ Lie(r)
       \/ \E p \in paid' \ paid : Pay(r, p)

ContractSpec == ContractInit /\ [][ContractNext]_contractVars
-----------------------------------------------------------------------------
(* However many calls carry a key, it is paid once (env/tools.py, the      *)
(* idempotent branch of issue_refund).                                     *)
OncePerKey == Idempotent => \A p, q \in paid : p.key = q.key => p = q

(* Unless a lying fault is possible, the caller may rely on a success: it  *)
(* names a payment of the asked amount on the asked order.                 *)
SuccessIsPaid ==
  ~lies => \A r \in told : r.ok => \E p \in paid : AsAsked(p, r) /\ r.ref = p.id
=============================================================================
