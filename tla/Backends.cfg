SPECIFICATION MCSpec
CONSTANTS
    Dbs = {"d1", "d2"}
    Kinds = {"mysql", "postgres"}
    ModOptions <- MCModOptions
    DbOptions <- MCDbOptions
    Chars <- MCChars
    Keys <- MCKeys
    Peers <- MCPeers
    Answers <- MCAnswers
    Escaping = {"d1", "def_db"}
    MaxQueries = 2
    LdapModules <- MCModules
    LdapFiles <- MCFiles
    LdapStatements <- MCStatements
    Entries <- MCEntries
    LdapKeys <- MCLdapKeys
    LdapQueries = 2
    Parts = {"sql", "ldap", "mailutils", "guile"}
    Width = 3
    MuUsers <- MCUsers
    MuStatements <- MCMuStatements
    MuQueries = 2
    GuileDbs = {"g1", "g2"}
    Tables <- MCTables
    MaxSessions = 2
INVARIANTS
    ConnectionsCounted
    InSync
    KeyReachesServer
    CopiesFit
    PositiveReplyFromEntry
    IdentityRestored
    HandlesKept
CHECK_DEADLOCK FALSE
