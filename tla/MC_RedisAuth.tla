--------------------------- MODULE MC_RedisAuth ---------------------------
(* Two clients and two names: c1's client id is n1 and its username n2,  *)
(* c2 has n2 for both, so the username and the client-id modes read      *)
(* different rules for c1.  c2 is on the blacklist for some decisions.   *)
EXTENDS RedisAuth, TLC

CONSTANTS c1, c2, n1, n2, p1, p2, fa, f1, t1, t2

MCClients == {c1, c2}
MCNames == {n1, n2}
MCClientID == (c1 :> n1) @@ (c2 :> n2)
MCUsername == (c1 :> n2) @@ (c2 :> n2)

\* The auth-mode or acl-mode bytes: anonymous, username, client id and
\* one value with no case; the mode a run does not look at is anonymous.
AllModes == 0..3
Anonymous == {0}

\* c2's CONNECTs are refused by the blacklist; c2 may not publish to t1.
MCBLAuth == (c1 :> "none") @@ (c2 :> "deny")
MCBLAcl == [x \in Clients \X Topics \X BOOLEAN |->
              IF x = <<c2, t1, TRUE>> THEN "deny" ELSE "none"]

\* A password hash compares equal exactly when the passwords are equal.
MCCompareHash(stored, given) == stored = given

\* fa is the filter "#", which matches every topic; f1 matches t1 only.
MCMatchTopic(filter, topic) == filter = fa \/ topic = t1

\* pa.CheckAcl: some matched filter's access permits the operation.
MCCheckAcl(fam, write) ==
    \E f \in DOMAIN fam : fam[f] \in (IF write THEN {2, 3} ELSE {1, 3})

\* Authentication: no ACL data.
AuthPasswords == {p1, p2}
AuthFilters == {}
AuthTopics == {t1}
AuthAclValues == {}

\* ACL checks: one password; two filters and two topics; WriteOnly and
\* ReadWrite, which tell reads from writes, and 256, which the byte
\* conversion makes 0 (Deny).
AclPasswords == {p1}
AclFilters == {fa, f1}
AclTopics == {t1, t2}
AclAclValues == {2, 3, 256}

\* 259 is not an access level; the byte conversion makes it 3 (ReadWrite).
WrapAclValues == {1, 259}
=============================================================================
