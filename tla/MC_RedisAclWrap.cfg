CONSTANTS
    c1 = c1
    c2 = c2
    n1 = n1
    n2 = n2
    p1 = p1
    p2 = p2
    fa = fa
    f1 = f1
    t1 = t1
    t2 = t2
    Absent = Absent
    Malformed = Malformed
    NotANumber = NotANumber
    Clients <- MCClients
    Names <- MCNames
    ClientID <- MCClientID
    Username <- MCUsername
    AuthModes <- Anonymous
    AclModes <- AllModes
    BLAuth <- MCBLAuth
    BLAcl <- MCBLAcl
    CompareHash <- MCCompareHash
    MatchTopic <- MCMatchTopic
    CheckAcl <- MCCheckAcl
    Passwords <- AclPasswords
    Filters <- AclFilters
    Topics <- AclTopics
    AclValues <- WrapAclValues

SPECIFICATION Spec

INVARIANTS
    AclGrantWarranted
