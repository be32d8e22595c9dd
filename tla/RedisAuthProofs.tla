-------------------------- MODULE RedisAuthProofs --------------------------
(***************************************************************************)
(* Proofs about the Redis auth hook of RedisAuth, for every value of the   *)
(* constants that RedisAuthAssumption and CollaboratorAssumption allow.    *)
(*                                                                         *)
(* A hook call changes nothing but `call`, and every other step resets     *)
(* `call`, so AuthGrantWarranted is preserved once OnConnectAuthenticate's *)
(* decision is shown to grant only for a warranted reason: the lemma       *)
(* AuthenticateSound walks its early-return chain.  AclGrantWarranted is   *)
(* not proved: it fails for a stored integer outside 0..255, which the     *)
(* code accepts (MC_RedisAclWrap).                                         *)
(***************************************************************************)
EXTENDS RedisAuth, TLAPS

\* The hash key the code selects is the one the properties name.
LEMMA KeyIsRuleKey ==
    ASSUME NEW mode \in {AuthUsername, AuthClientID}, NEW c \in Clients
    PROVE  Key(mode, c) = RuleKey(mode, c)
  BY DEF Key, RuleKey, AuthUsername, AuthClientID

\* OnConnectAuthenticate returns a bool.
LEMMA AuthenticateType ==
    ASSUME RedisAuthTypeOK, NEW c \in Clients, NEW p \in Passwords
    PROVE  Authenticate(c, p) \in BOOLEAN
  <1> DEFINE res == authHash[Key(config.authMode, c)]
  <1>1. res \in AuthEntries
    BY RedisAuthAssumption DEF RedisAuthTypeOK, Key
  <1>2. res \notin {Absent, Malformed} => res.pw \in Passwords
    BY <1>1 DEF AuthEntries
  <1>3. QED
    BY <1>2, CollaboratorAssumption DEF Authenticate

\* OnConnectAuthenticate lets c in only for a warranted reason.
LEMMA AuthenticateSound ==
    ASSUME RedisAuthTypeOK, NEW c \in Clients, NEW p \in Passwords,
           Authenticate(c, p)
    PROVE  AuthWarranted(c, p)
  <1> DEFINE mode == config.authMode
             res  == authHash[Key(mode, c)]
  <1>1. CASE mode = AuthAnonymous
    BY <1>1 DEF AuthWarranted, AuthAnonymous
  <1>2. CASE mode # AuthAnonymous /\ BLAuth[c] # "none"
    BY <1>2 DEF Authenticate, AuthWarranted
  <1>3. CASE mode # AuthAnonymous /\ BLAuth[c] = "none"
    <2>1. mode \in {AuthUsername, AuthClientID} /\ Reachable
          /\ res \notin {Absent, Malformed} /\ res.allow
          /\ CompareHash(res.pw, p)
      BY <1>3 DEF Authenticate
    <2>2. res \in [allow : BOOLEAN, pw : Passwords]
      BY <2>1, RedisAuthAssumption DEF RedisAuthTypeOK, AuthEntries, Key
    <2>3. res \in [allow : {TRUE}, pw : Passwords]
      BY <2>1, <2>2
    <2>4. res = authHash[RuleKey(mode, c)]
      BY <2>1, KeyIsRuleKey
    <2>5. QED
      BY <1>3, <2>1, <2>3, <2>4
         DEF AuthWarranted, Reachable, AuthUsername, AuthClientID
  <1>4. QED
    BY <1>1, <1>2, <1>3

\* The fam OnACLCheck builds is a map from some of the filters to bytes.
LEMMA AclFamType ==
    ASSUME NEW h \in [Filters -> AclEntries], NEW t \in Topics
    PROVE  /\ DOMAIN AclFam(h, t) \in SUBSET Filters
           /\ AclFam(h, t) \in [DOMAIN AclFam(h, t) -> Accesses]
  BY RedisAuthAssumption DEF AclFam, AclEntries, Accesses

\* OnACLCheck returns a bool and records a fam of the right type.
LEMMA AclCheckType ==
    ASSUME RedisAuthTypeOK, NEW c \in Clients, NEW t \in Topics,
           NEW w \in BOOLEAN
    PROVE  /\ AclCheck(c, t, w).fam \in UNION {[F -> Accesses] : F \in SUBSET Filters}
           /\ AclCheck(c, t, w).result \in BOOLEAN
  <1> DEFINE fam == AclFam(aclHash[Key(config.aclMode, c)], t)
  <1>1. aclHash[Key(config.aclMode, c)] \in [Filters -> AclEntries]
    BY RedisAuthAssumption DEF RedisAuthTypeOK, Key
  <1>2. fam \in UNION {[F -> Accesses] : F \in SUBSET Filters}
    BY <1>1, AclFamType
  <1>3. CheckAcl(fam, w) \in BOOLEAN
    BY <1>1, AclFamType, CollaboratorAssumption
  <1>4. NoFam \in UNION {[F -> Accesses] : F \in SUBSET Filters}
    <2>1. NoFam \in [{} -> Accesses]
      BY DEF NoFam
    <2>2. QED
      BY <2>1
  <1>5. QED
    BY <1>2, <1>3, <1>4 DEF AclCheck

-----------------------------------------------------------------------------
(* The type invariant.                                                     *)

LEMMA TypeInit == Init => RedisAuthTypeOK
  BY DEF Init, RedisAuthTypeOK, AuthEntries, AclEntries, Calls, NoCall,
         AuthAnonymous

\* Every step keeps the state well typed.
LEMMA TypeStep == RedisAuthTypeOK /\ [Next]_vars => RedisAuthTypeOK'
  <1> SUFFICES ASSUME RedisAuthTypeOK, [Next]_vars PROVE RedisAuthTypeOK'
    OBVIOUS
  <1>1. ASSUME NEW arg \in InitArgs, NEW m \in Modes, HookInit(arg, m)
        PROVE RedisAuthTypeOK'
    BY <1>1 DEF HookInit, RedisAuthTypeOK, Modes, Calls, NoCall
  <1>2. CASE Stop
    BY <1>2 DEF Stop, RedisAuthTypeOK, Calls, NoCall
  <1>3. ASSUME NEW c \in Clients, NEW p \in Passwords,
               OnConnectAuthenticate(c, p)
        PROVE RedisAuthTypeOK'
    BY <1>3, AuthenticateType DEF OnConnectAuthenticate, RedisAuthTypeOK, Calls
  <1>4. ASSUME NEW c \in Clients, NEW t \in Topics, NEW w \in BOOLEAN,
               OnACLCheck(c, t, w)
        PROVE RedisAuthTypeOK'
    BY <1>4, AclCheckType DEF OnACLCheck, RedisAuthTypeOK, Calls
  <1>5. ASSUME NEW n \in Names, NEW e \in AuthEntries, SetAuth(n, e)
        PROVE RedisAuthTypeOK'
    BY <1>5 DEF SetAuth, RedisAuthTypeOK, Calls, NoCall
  <1>6. ASSUME NEW n \in Names, NEW f \in Filters, NEW v \in AclEntries,
               SetAcl(n, f, v)
        PROVE RedisAuthTypeOK'
    BY <1>6 DEF SetAcl, RedisAuthTypeOK, Calls, NoCall
  <1>7. CASE RedisFail
    BY <1>7 DEF RedisFail, RedisAuthTypeOK, Calls, NoCall
  <1>8. CASE UNCHANGED vars
    BY <1>8 DEF vars, RedisAuthTypeOK, Calls
  <1>9. QED
    BY <1>1, <1>2, <1>3, <1>4, <1>5, <1>6, <1>7, <1>8 DEF Next

\* Every reachable state of the hook is well typed: in particular every
\* fam OnACLCheck builds maps filters to bytes, for all clients, names,
\* filters and stored integers.
THEOREM TypeCorrect == Spec => []RedisAuthTypeOK
  BY TypeInit, TypeStep, PTL DEF Spec

-----------------------------------------------------------------------------
(* The grant properties.                                                   *)

\* A step keeps AuthGrantWarranted.
LEMMA AuthGrantStep ==
    RedisAuthTypeOK /\ AuthGrantWarranted /\ [Next]_vars => AuthGrantWarranted'
  <1> SUFFICES ASSUME RedisAuthTypeOK, AuthGrantWarranted, [Next]_vars
               PROVE  AuthGrantWarranted'
    OBVIOUS
  <1>1. ASSUME NEW c \in Clients, NEW p \in Passwords,
               OnConnectAuthenticate(c, p)
        PROVE AuthGrantWarranted'
    <2>1. call'.result => AuthWarranted(c, p)
      BY <1>1, AuthenticateSound DEF OnConnectAuthenticate
    <2>2. AuthWarranted(c, p) <=> AuthWarranted(c, p)'
      BY <1>1 DEF OnConnectAuthenticate, AuthWarranted, RuleKey
    <2>3. QED
      BY <1>1, <2>1, <2>2 DEF OnConnectAuthenticate, AuthGrantWarranted
  <1>2. ASSUME NEW c \in Clients, NEW t \in Topics, NEW w \in BOOLEAN,
               OnACLCheck(c, t, w)
        PROVE AuthGrantWarranted'
    BY <1>2 DEF OnACLCheck, AuthGrantWarranted
  <1>3. CASE UNCHANGED vars
    BY <1>3 DEF vars, AuthGrantWarranted, AuthWarranted, RuleKey
  <1>4. CASE /\ ~UNCHANGED vars
             /\ ~\E c \in Clients, p \in Passwords : OnConnectAuthenticate(c, p)
             /\ ~\E c \in Clients, t \in Topics, w \in BOOLEAN : OnACLCheck(c, t, w)
    BY <1>4 DEF Next, vars, HookInit, Stop, SetAuth, SetAcl, RedisFail, NoCall,
               AuthGrantWarranted
  <1>5. QED
    BY <1>1, <1>2, <1>3, <1>4

\* OnConnectAuthenticate lets a client in only for a warranted reason, in
\* every reachable state and for every value of the constants: never
\* after Stop, never while Redis is down, never from a missing, broken or
\* disallowed rule or a wrong password.
THEOREM AuthGrantInvariant == Spec => []AuthGrantWarranted
  <1>1. Init => RedisAuthTypeOK /\ AuthGrantWarranted
    BY TypeInit DEF Init, AuthGrantWarranted, NoCall
  <1>2. RedisAuthTypeOK /\ AuthGrantWarranted /\ [Next]_vars
          => (RedisAuthTypeOK /\ AuthGrantWarranted)'
    BY TypeStep, AuthGrantStep
  <1>3. QED
    BY <1>1, <1>2, PTL DEF Spec

=============================================================================
