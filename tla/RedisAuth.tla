------------------------------ MODULE RedisAuth ------------------------------
(***************************************************************************)
(* The Redis authentication and ACL hook (src/plugin/auth/redis/redis.go). *)
(* Init checks the config type, fills in the defaults and pings Redis;     *)
(* afterwards the MQTT server calls OnConnectAuthenticate for every        *)
(* CONNECT and OnACLCheck for every publish and subscribe, concurrently,   *)
(* while an operator edits the Redis hashes and Redis may go away.  Each   *)
(* hook call makes one Redis read (HGet, HGetAll), so it is one step.      *)
(*                                                                         *)
(* The helpers of plugin/auth and of the MQTT server that live outside     *)
(* src/ (password hashing, topic matching, the ACL verdict over the        *)
(* matched entries, the blacklist) are constants: their values are given   *)
(* by the MC module.                                                       *)
(***************************************************************************)
EXTENDS Integers

CONSTANTS
    Clients,           \* connected MQTT clients
    Names,             \* usernames and client ids
    Passwords,         \* password values, as stored and as presented
    Filters,           \* topic filters used as ACL hash fields
    Topics,            \* topics clients publish or subscribe to
    AuthModes,         \* byte values auth-mode may hold
    AclModes,          \* byte values acl-mode may hold
    AclValues,         \* integers an operator stores as ACL values
    ClientID,          \* cl.ID of each client
    Username,          \* cl.Properties.Username of each client
    BLAuth,            \* CheckBLAuth verdict: "none" (n < 0), "allow", "deny"
    BLAcl,             \* CheckBLAcl verdict per client, topic and write
    CompareHash(_, _), \* pa.CompareHash(stored, given, key, type)
    MatchTopic(_, _),  \* plugin.MatchTopic(filter, topic)
    CheckAcl(_, _),    \* pa.CheckAcl(fam, write)
    Absent,            \* a hash field that is not set
    Malformed,         \* an auth value json.Unmarshal rejects
    NotANumber         \* an ACL value strconv.Atoi rejects

\* auth.AuthAnonymous, auth.AuthUsername, auth.AuthClientID.
AuthAnonymous == 0
AuthUsername == 1
AuthClientID == 2

\* auth.Access is a byte.
Accesses == 0..255

Verdicts == {"none", "allow", "deny"}

\* The auth.Access values that permit a read or a write: ReadOnly (1) and
\* ReadWrite (3), WriteOnly (2) and ReadWrite (3).
Permits(write) == IF write THEN {2, 3} ELSE {1, 3}

ASSUME RedisAuthAssumption ==
    /\ AuthModes \subseteq 0..255 /\ AclModes \subseteq 0..255
    /\ AclValues \subseteq Int
    /\ Absent \notin Int /\ NotANumber \notin Int
    /\ ClientID \in [Clients -> Names]
    /\ Username \in [Clients -> Names]
    /\ BLAuth \in [Clients -> Verdicts]
    /\ BLAcl \in [Clients \X Topics \X BOOLEAN -> Verdicts]

\* What the hook relies on from plugin/auth: CompareHash and CheckAcl
\* return a bool, and CheckAcl grants an operation only if some entry of
\* fam is an access level that permits it.
ASSUME CollaboratorAssumption ==
    /\ \A a, b \in Passwords : CompareHash(a, b) \in BOOLEAN
    /\ \A F \in SUBSET Filters, w \in BOOLEAN : \A fam \in [F -> Accesses] :
         /\ CheckAcl(fam, w) \in BOOLEAN
         /\ CheckAcl(fam, w) => \E f \in F : fam[f] \in Permits(w)

\* The JSON auth.AuthRule stored under a name in the auth hash: missing
\* (HGet gives redis.Nil and ""), not valid JSON, or a rule.
AuthEntries == {Absent, Malformed} \cup [allow : BOOLEAN, pw : Passwords]

\* A field of an ACL hash: missing, a value strconv.Atoi rejects, or an
\* integer.
AclEntries == {Absent, NotANumber} \cup AclValues

\* The kinds of argument Init may be given: an *Options, nil, or a value of
\* another type; and the modes an *Options may carry.
InitArgs == {"options", "nil", "other"}
Modes == [authMode : AuthModes, aclMode : AclModes]

NoCall == [kind |-> "none"]

VARIABLES
    hook,      \* "new", "ready" (Init returned nil), "failed", "stopped"
    config,    \* a.config: the modes in force
    redisUp,   \* the Redis server answers
    authHash,  \* the hash AuthKeyPrefix: name -> AuthEntries
    aclHash,   \* the hashes AclKeyPrefix:name: name -> filter -> AclEntries
    call       \* the hook call of the last step and what it returned

vars == <<hook, config, redisUp, authHash, aclHash, call>>

Calls ==
    {NoCall}
    \cup [kind : {"auth"}, client : Clients, pw : Passwords,
          result : BOOLEAN]
    \cup [kind : {"acl"}, client : Clients, topic : Topics, write : BOOLEAN,
          fam : UNION {[F -> Accesses] : F \in SUBSET Filters},
          result : BOOLEAN]

RedisAuthTypeOK ==
    /\ hook \in {"new", "ready", "failed", "stopped"}
    /\ config \in [authMode : AuthModes \cup {AuthAnonymous},
                   aclMode : AclModes \cup {AuthAnonymous}]
    /\ redisUp \in BOOLEAN
    /\ authHash \in [Names -> AuthEntries]
    /\ aclHash \in [Names -> [Filters -> AclEntries]]
    /\ call \in Calls

Init ==
    /\ hook = "new"
    /\ config = [authMode |-> AuthAnonymous, aclMode |-> AuthAnonymous]
    /\ redisUp \in BOOLEAN
    /\ authHash = [n \in Names |-> Absent]
    /\ aclHash = [n \in Names |-> [f \in Filters |-> Absent]]
    /\ call = NoCall

-----------------------------------------------------------------------------
(* The hook's operations.                                                  *)

\* Init(config) given an argument of kind arg carrying modes m: a config of
\* another type is refused; nil stands for an Options whose modes are the
\* zero byte (anonymous); the prefixes get their defaults; a failed Ping
\* is returned as an error.
HookInit(arg, m) ==
    /\ hook = "new"
    /\ config' = IF arg = "options" THEN m
                 ELSE [authMode |-> AuthAnonymous, aclMode |-> AuthAnonymous]
    /\ hook' = IF arg = "other" \/ ~redisUp THEN "failed" ELSE "ready"
    /\ call' = NoCall
    /\ UNCHANGED <<redisUp, authHash, aclHash>>

\* Stop: a.db.Close(); later commands fail with redis.ErrClosed.
Stop ==
    /\ hook = "ready"
    /\ hook' = "stopped"
    /\ call' = NoCall
    /\ UNCHANGED <<config, redisUp, authHash, aclHash>>

\* A Redis command gets an answer other than an error.
Reachable == redisUp /\ hook = "ready"

\* The key a mode selects for client c: its username or its client id.
Key(mode, c) == IF mode = AuthUsername THEN Username[c] ELSE ClientID[c]

\* Mutant: the rule's Allow flag is not looked at.
AuthenticateNoAllow(c, p) ==
    LET mode == config.authMode
        res  == authHash[Key(mode, c)]
    IN  IF mode = AuthAnonymous THEN TRUE
        ELSE IF BLAuth[c] # "none" THEN BLAuth[c] = "allow"
        ELSE IF mode \notin {AuthUsername, AuthClientID} THEN FALSE
        ELSE IF ~Reachable \/ res = Absent THEN FALSE
        ELSE IF res = Malformed THEN FALSE
        ELSE CompareHash(res.pw, p)

\* OnConnectAuthenticate(cl, pk) for client c presenting password p.
Authenticate(c, p) ==
    LET mode == config.authMode
        res  == authHash[Key(mode, c)]
    IN  IF mode = AuthAnonymous THEN TRUE
        ELSE IF BLAuth[c] # "none" THEN BLAuth[c] = "allow"
        ELSE IF mode \notin {AuthUsername, AuthClientID} THEN FALSE
        ELSE IF ~Reachable \/ res = Absent THEN FALSE
        ELSE IF res = Malformed THEN FALSE
        ELSE IF ~res.allow THEN FALSE
        ELSE CompareHash(res.pw, p)

\* Mutant: every field of the hash is kept, matching or not.
AclFamNoMatch(h, t) ==
    LET F == {f \in Filters : h[f] \in Int}
    IN  [f \in F |-> h[f] % 256]

\* Mutant: the parsed int is kept as it is, without the byte conversion.
AclFamNoWrap(h, t) ==
    LET F == {f \in Filters : MatchTopic(f, t) /\ h[f] \in Int}
    IN  [f \in F |-> h[f]]

\* fam of OnACLCheck: every field of the client's ACL hash whose filter
\* matches the topic and whose value strconv.Atoi parses, converted to
\* auth.Access (a byte: the int modulo 256).
AclFam(h, t) ==
    LET F == {f \in Filters : MatchTopic(f, t) /\ h[f] \in Int}
    IN  [f \in F |-> h[f] % 256]

\* No fam was built: the call returned before HGetAll's result was used.
NoFam == [f \in {} |-> 0]

\* OnACLCheck(cl, topic, write) for client c: the fam it builds and its
\* verdict.
AclCheck(c, t, w) ==
    LET mode == config.aclMode
        fam  == AclFam(aclHash[Key(mode, c)], t)
    IN  IF mode = AuthAnonymous THEN [fam |-> NoFam, result |-> TRUE]
        ELSE IF BLAcl[<<c, t, w>>] # "none"
          THEN [fam |-> NoFam, result |-> BLAcl[<<c, t, w>>] = "allow"]
        ELSE IF mode \notin {AuthUsername, AuthClientID}
          THEN [fam |-> NoFam, result |-> FALSE]
        ELSE IF ~Reachable THEN [fam |-> NoFam, result |-> FALSE]
        ELSE [fam |-> fam, result |-> CheckAcl(fam, w)]

\* The server calls the two hooks Provides names once Init has succeeded,
\* and may still call them after Stop while it shuts down.
Serving == hook \in {"ready", "stopped"}

OnConnectAuthenticate(c, p) ==
    /\ Serving
    /\ call' = [kind |-> "auth", client |-> c, pw |-> p,
                result |-> Authenticate(c, p)]
    /\ UNCHANGED <<hook, config, redisUp, authHash, aclHash>>

OnACLCheck(c, t, w) ==
    /\ Serving
    /\ call' = [kind |-> "acl", client |-> c, topic |-> t, write |-> w,
                fam |-> AclCheck(c, t, w).fam,
                result |-> AclCheck(c, t, w).result]
    /\ UNCHANGED <<hook, config, redisUp, authHash, aclHash>>

-----------------------------------------------------------------------------
(* The operator and the Redis server.                                      *)

\* HSET or HDEL on the auth hash.
SetAuth(n, e) ==
    /\ authHash' = [authHash EXCEPT ![n] = e]
    /\ call' = NoCall
    /\ UNCHANGED <<hook, config, redisUp, aclHash>>

\* HSET or HDEL on an ACL hash.
SetAcl(n, f, v) ==
    /\ aclHash' = [aclHash EXCEPT ![n][f] = v]
    /\ call' = NoCall
    /\ UNCHANGED <<hook, config, redisUp, authHash>>

RedisFail ==
    /\ redisUp' = ~redisUp
    /\ call' = NoCall
    /\ UNCHANGED <<hook, config, authHash, aclHash>>

Next ==
    \/ \E arg \in InitArgs, m \in Modes : HookInit(arg, m)
    \/ Stop
    \/ \E c \in Clients :
         \/ \E p \in Passwords : OnConnectAuthenticate(c, p)
         \/ \E t \in Topics, w \in BOOLEAN : OnACLCheck(c, t, w)
    \/ \E n \in Names :
         \/ \E e \in AuthEntries : SetAuth(n, e)
         \/ \E f \in Filters, v \in AclEntries : SetAcl(n, f, v)
    \/ RedisFail

Spec == Init /\ [][Next]_vars

-----------------------------------------------------------------------------
(* Properties.                                                             *)

\* The Redis key of client c's rules under a mode: auth-mode and acl-mode
\* 1 name the username, 2 the client id (auth.AuthUsername, AuthClientID).
RuleKey(mode, c) == IF mode = 1 THEN Username[c] ELSE ClientID[c]

\* The reasons that warrant letting client c in with password p: the hook
\* is anonymous, the blacklist lets c in, or c is not blacklisted and
\* Redis, open and reachable, holds an allowed rule under c's key whose
\* password matches p.
AuthWarranted(c, p) ==
    LET mode == config.authMode
    IN  \/ mode = 0
        \/ BLAuth[c] = "allow"
        \/ /\ BLAuth[c] = "none"
           /\ mode \in {1, 2}
           /\ hook = "ready" /\ redisUp
           /\ \E r \in [allow : {TRUE}, pw : Passwords] :
                 /\ authHash[RuleKey(mode, c)] = r
                 /\ CompareHash(r.pw, p)

\* OnConnectAuthenticate lets a client in only for a reason AuthWarranted
\* names: never after Stop closed the Redis client, never while Redis is
\* down, never from a missing, broken or disallowed rule, and never in a
\* mode with no case.
AuthGrantWarranted ==
    call.kind = "auth" /\ call.result => AuthWarranted(call.client, call.pw)

\* The reasons that warrant letting client c read (w FALSE) or write topic
\* t: the hook is anonymous, the blacklist allows it, or c is not
\* blacklisted and Redis, open and reachable, stores under c's ACL key a
\* filter matching t whose value is an access level permitting it.
AclWarranted(c, t, w) ==
    LET mode == config.aclMode
        bl   == BLAcl[<<c, t, w>>]
    IN  \/ mode = 0
        \/ bl = "allow"
        \/ /\ bl = "none"
           /\ mode \in {1, 2}
           /\ hook = "ready" /\ redisUp
           /\ \E f \in Filters :
                 /\ MatchTopic(f, t)
                 /\ aclHash[RuleKey(mode, c)][f] \in Permits(w)

\* OnACLCheck allows a publish or a subscribe only for a reason
\* AclWarranted names; in particular a stored value that is not an access
\* level (a number outside 0..3) never grants anything.
AclGrantWarranted ==
    call.kind = "acl" /\ call.result =>
        AclWarranted(call.client, call.topic, call.write)

=============================================================================
