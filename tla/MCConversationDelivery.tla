----------------------- MODULE MCConversationDelivery -----------------------
(* Small instances of ConversationDelivery.                                *)
EXTENDS ConversationDelivery, TLC

CONSTANTS m1, m2, m3, s, t

\* The identities of the Runs that drains start are interchangeable.
Alike == Permutations(ConvRun)

\* Every message in one session.
OneSession == [m \in Message |-> s]

\* The last message in a session of its own.
TwoSessions == [m \in Message |-> IF m = m3 THEN t ELSE s]
=============================================================================
