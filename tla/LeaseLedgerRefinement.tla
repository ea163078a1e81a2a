------------------------- MODULE LeaseLedgerRefinement -------------------------
(***************************************************************************)
(* The pool implements LeaseLedger, also under the Settings page.  A lease *)
(* is live while _LUA_ACK would accept it.                                 *)
(***************************************************************************)
EXTENDS PoolAdmin

Live == {g \in grants : Accepted(g)}

Ledger == INSTANCE LeaseLedger WITH
            issued <- grants, live <- Live, honoured <- credited,
            counted <- completed - legacyCount

\* Whatever is saved on the Settings page, and though X are then handed out again:
\* an X has one live lease at most, leases are honoured while they are live and at
\* no other time, each counts once, and one that has ended never comes back.
ImplementsLedger == Ledger!LLSpec

=============================================================================
