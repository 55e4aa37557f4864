--------------------------- MODULE Differentiation ---------------------------
(***************************************************************************)
(* How a request, a channel or an enforcement object gets its token:       *)
(* ChannelHashingDifferentiation and ObjectHashingDifferentiation.  The    *)
(* builder joins the values of the classifiers in use and hashes the text. *)
(* A text is the sequence of those values; the one of no classifier,       *)
(* "no_diff", is the empty sequence.                                       *)
(***************************************************************************)
EXTENDS Naturals, Sequences

\* build_workflow_type_context ... build_no_diff, and the choice between them
\* in generate_builder: use[i] tells whether classifier i counts.  A channel has
\* three, an object two.
Message(use, values) ==
  LET Part(i) == IF i \in DOMAIN values /\ use[i] THEN <<values[i]>> ELSE <<>>
  IN  Part(1) \o Part(2) \o Part(3)

\* What options.hpp chooses: channels by operation context, objects by nothing.
DefaultChannelClassifiers == <<FALSE, FALSE, TRUE>>
DefaultObjectClassifiers == <<FALSE, FALSE>>
=============================================================================
