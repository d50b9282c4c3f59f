------------------------------- MODULE Escrow -------------------------------
(***************************************************************************)
(* Escrow: money held between two accounts under an agent who takes a fee  *)
(* once both others have ratified (gamebank_evaluator.cpp:772-945,         *)
(* database.cpp:2434).                                                     *)
(***************************************************************************)
EXTENDS Accounts

CONSTANTS EscrowId,       \* the escrow ids accounts use
          EscrowTerms     \* bound: pairs (ratification, expiration) in blocks from now

ASSUME TermsAssumption ==
  \A t \in EscrowTerms : t \in Nat \X Nat /\ 0 < t[1] /\ t[1] < t[2]

VARIABLE escrows          \* escrow_index

escrow_object ==
  [from : Account, to : Account, agent : Account, escrow_id : EscrowId,
   ratification_deadline : Nat, escrow_expiration : Nat, held : Holding,
   pending_fee : Holding, to_approved : BOOLEAN, agent_approved : BOOLEAN,
   disputed : BOOLEAN]

EscrowTypeOK == escrows \subseteq escrow_object

EscrowInit == escrows = {}

is_approved(e) == e.to_approved /\ e.agent_approved
InEscrow(e) == Both(e.held, e.pending_fee)
Replaced(e, f) == (escrows \ {e}) \cup {f}

(* The agent must be a third party (escrow_transfer_operation::validate). *)
escrow_transfer(from, to, agent, id, x, fee, terms) ==
  /\ agent \notin {from, to}
  /\ Covers(balance[from], Both(x, fee))
  /\ ~\E e \in escrows : e.from = from /\ e.escrow_id = id
  /\ balance' = Debit(balance, from, Both(x, fee))
  /\ escrows' = escrows \cup
       {[from |-> from, to |-> to, agent |-> agent, escrow_id |-> id,
         ratification_deadline |-> now + terms[1], escrow_expiration |-> now + terms[2],
         held |-> x, pending_fee |-> fee, to_approved |-> FALSE,
         agent_approved |-> FALSE, disputed |-> FALSE]}
  /\ UNCHANGED <<savings, supply, now>>

(* escrow_approve_evaluator, approve = true, with the fee paid by the later  *)
(* of the two approvals.                                                     *)
escrow_approve(e, who) ==
  /\ e.ratification_deadline >= now
  /\ \/ who = e.to /\ ~e.to_approved
     \/ who = e.agent /\ ~e.agent_approved
  /\ LET f == [e EXCEPT !.to_approved = @ \/ who = e.to,
                        !.agent_approved = @ \/ who = e.agent]
     IN  IF is_approved(f)
           THEN /\ balance' = Credit(balance, e.agent, e.pending_fee)
                /\ escrows' = Replaced(e, [f EXCEPT !.pending_fee = Nothing])
           ELSE /\ escrows' = Replaced(e, f)
                /\ UNCHANGED balance
  /\ UNCHANGED <<savings, supply, now>>

(* escrow_approve_evaluator, approve = false: everything goes back, also     *)
(* after the other one has approved.                                         *)
escrow_reject(e, who) ==
  /\ e.ratification_deadline >= now
  /\ \/ who = e.to /\ ~e.to_approved
     \/ who = e.agent /\ ~e.agent_approved
  /\ balance' = Credit(balance, e.from, InEscrow(e))
  /\ escrows' = escrows \ {e}
  /\ UNCHANGED <<savings, supply, now>>

escrow_dispute(e) ==
  /\ now < e.escrow_expiration
  /\ is_approved(e)
  /\ ~e.disputed
  /\ escrows' = Replaced(e, [e EXCEPT !.disputed = TRUE])
  /\ UNCHANGED accounts

(* Who may release to whom: the agent decides a dispute; before expiration   *)
(* each party releases to the other, afterwards to either.                   *)
MayRelease(e, who, receiver) ==
  IF e.disputed
    THEN who = e.agent
    ELSE /\ who \in {e.from, e.to}
         /\ e.escrow_expiration > now =>
              receiver = IF who = e.from THEN e.to ELSE e.from

escrow_release(e, who, receiver, x) ==
  /\ Covers(e.held, x)
  /\ receiver \in {e.from, e.to}
  /\ is_approved(e)
  /\ MayRelease(e, who, receiver)
  /\ balance' = Credit(balance, receiver, x)
  /\ escrows' = IF e.held = x THEN escrows \ {e}
                ELSE Replaced(e, [e EXCEPT !.held = Less(@, x)])
  /\ UNCHANGED <<savings, supply, now>>

(* Mutant: the deadline itself is not past it. *)
UnratifiedStrictly(t) ==
  {e \in escrows : ~is_approved(e) /\ e.ratification_deadline < t}

(* expire_escrow_ratification(): the index has the unapproved ones first, by *)
(* deadline.                                                                 *)
UnratifiedEscrows(t) ==
  {e \in escrows : ~is_approved(e) /\ e.ratification_deadline <= t}

expire_escrow_ratification(t) == escrows' = escrows \ UnratifiedEscrows(t)
=============================================================================
