---------------------------- MODULE ReceiptClaims ----------------------------
(***************************************************************************)
(* What the design and the plan of issues #242 and #243 say of the receipt *)
(* and the code does not do.  Each property is refuted by a configuration. *)
(***************************************************************************)
EXTENDS ValidationReceipt

\* docs/superpowers/specs/2026-09-06-issues-242-243-dependency-signing-governance-design.md:364:
\* of the completed phases other than the producer only the last one may be run
\* again.  run_phase applies the rule to one read of the receipt and takes the
\* digest it reserves with from another.
TailRerun ==
  \A r \in Runner : run[r].pc = "running" /\ run[r].phase # Producer
                      => MayRun(receipt.phases, run[r].phase)

\* docs/superpowers/plans/2026-09-06-issues-242-243-dependency-signing-governance-plan.md:134-135:
\* the legal transitions are the listed ones and "adopted" is terminal.  A failing
\* phase sets the state of its repositories without looking at the old one.
AdoptedTerminal ==
  [][\A q \in Repo : receipt.state[q] = "adopted" => receipt'.state[q] = "adopted"]_vars
=============================================================================
