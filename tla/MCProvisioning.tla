-------------------------- MODULE MCProvisioning --------------------------
EXTENDS Provisioning

\* Two devices meet two users in opposite order and a third one of them, while an admin
\* edits one user and deletes the other.
JobDef ==
    [t \in Requests |->
        CASE t = "sync" -> [kind |-> "sync", device |-> "laptop", names |-> <<"alice", "bob">>]
          [] t = "enroll" -> [kind |-> "enroll", device |-> "desktop", names |-> <<"bob", "alice">>]
          [] t = "tablet" -> [kind |-> "sync", device |-> "tablet", names |-> <<"bob">>]
          [] t = "delete" -> [kind |-> "delete", device |-> None, names |-> <<"alice">>]
          [] OTHER -> [kind |-> "edit", device |-> None, names |-> <<"bob">>]]

KnownDef == {{}, {"laptop", "tablet"}}
=============================================================================
