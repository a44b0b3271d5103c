---------------------------- MODULE MCAIGateway ----------------------------
(* Instances of AIGateway for TLC. *)
EXTENDS AIGateway, TLC

CONSTANTS a1, s1, s2, d1, d2, r1, r2, r3, x1, x2

\* The settings a user saves: AI off, or a cloud provider; for the batches, the automatic cloud.
MCProfiles == {<<"no_ai", "public">>, <<"cloud_manual", "public">>}
MCAuto == {<<"cloud_auto", "public">>}
MCNone == {}

\* The batch starters are interchangeable (safety runs only).
MCSymmetry == Permutations(Starters)

\* "late" says something of a thread only while it is past its gate: the next gate
\* takes the thread out again.
MCView == <<settings, neverCloud, store, inflight, lock, call, sent, unsaved,
            {t \in late : call[t].pc \in PastGate}>>

=============================================================================
