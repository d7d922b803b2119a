------------------------------ MODULE InitBase ------------------------------
(***************************************************************************)
(* `akb init` (cmd/akb/init.go, init_repo.go) and the commit identity      *)
(* (internal/storage/identity.go).  A behaviour is one invocation in one   *)
(* world: where the target is, what the machine and the environment name,  *)
(* and the flags.  A name or an email is the source it comes from, "" when *)
(* there is none.                                                          *)
(***************************************************************************)
EXTENDS Naturals, Sequences, SequencesExt

VARIABLES
    world,      \* what the invocation meets; it does not change
    made,       \* the paths the invocation has written
    config,     \* the identity recorded in akb.yaml, NoConfig before
    author,     \* the author of the init commit, NoIdentity without one
    pc,         \* the next step
    result      \* how the invocation ended

vars == <<world, made, config, author, pc, result>>

Host == {"none", "inside", "root"}     \* target outside, below, or at the root of a repository
Worlds == [host : Host, merging : BOOLEAN, exists : BOOLEAN,
           embed : BOOLEAN, noGit : BOOLEAN, force : BOOLEAN, noCommit : BOOLEAN,
           flagName : {"", "flag"}, flagEmail : {"", "flag"},
           envName : {"", "env"}, envEmail : {"", "env"},
           userName : {"", "git"}, userEmail : {"", "git"},
           gitAuthor : {"", "exported"}, gitCommitter : {"", "exported"}]

Sources == {"", "flag", "env", "git", "exported", "default"}
Identity == [name : Sources, email : Sources]
NoIdentity == [name |-> "", email |-> ""]
NoConfig == [name |-> "none", email |-> "none"]

Dirs == <<"kb", "raw", "state">>
Seeds == {"index", "log", "manifest"}
Made == {"kb", "raw", "state", "config", "db", "stateIgnore", "rootIgnore", "exclude", "repo"} \cup Seeds
Steps == {"check", "dirs", "seeds", "config", "db", "ignore", "exclude", "repo", "preflight", "commit", "end"}
Results == {"none", "ok", "usage", "exists", "failed", "merging", "noIdentity"}

TypeOK ==
    /\ world \in Worlds
    /\ made \subseteq Made
    /\ config \in Identity \cup {NoConfig}
    /\ author \in Identity
    /\ pc \in Steps /\ result \in Results
    /\ pc = "end" <=> result # "none"
    /\ author # NoIdentity => author.name # "" /\ author.email # "" /\ config # NoConfig

Init ==
    /\ world \in {w \in Worlds : w.merging => w.host # "none"}
    /\ made = {} /\ config = NoConfig /\ author = NoIdentity
    /\ pc = "check" /\ result = "none"

-----------------------------------------------------------------------------
(* Identities.                                                             *)

FirstNonEmpty(values) ==
    LET i == SelectInSeq(values, LAMBDA v : v # "") IN IF i = 0 THEN "" ELSE values[i]

Fill(id, other) == [name |-> FirstNonEmpty(<<id.name, other.name>>),
                    email |-> FirstNonEmpty(<<id.email, other.email>>)]
Complete(id) == id.name # "" /\ id.email # ""

Flags == [name |-> world.flagName, email |-> world.flagEmail]
Env == [name |-> world.envName, email |-> world.envEmail]
Default == [name |-> "default", email |-> "default"]

\* git config user.name and user.email, and `git var GIT_AUTHOR_IDENT`, which
\* names both or fails.
UserConfig == [name |-> world.userName, email |-> world.userEmail]
Ident(exported) ==
    LET id == Fill([name |-> exported, email |-> exported], UserConfig)
    IN  IF Complete(id) THEN id ELSE NoIdentity
AuthorIdent == Ident(world.gitAuthor)
CommitterIdent == Ident(world.gitCommitter)

NativeIdentity == IF Complete(AuthorIdent) THEN AuthorIdent ELSE UserConfig

\* ResolveInitIdentity, and the source that decides what is recorded.
ResolveInitIdentity == Fill(Fill(Fill(Flags, Env), AuthorIdent), Default)
InitSource ==
    IF Flags # NoIdentity THEN "flag"
    ELSE IF Env # NoIdentity THEN "env"
    ELSE IF Complete(AuthorIdent) THEN "git"
    ELSE "default"

\* initIdentity: the base's own identity is recorded, an ambient one is not.
RecordsDefaultOnly ==
    IF InitSource = "default" THEN ResolveInitIdentity ELSE NoIdentity
Recorded ==
    IF InitSource = "default" \/ Complete(Flags) THEN ResolveInitIdentity ELSE NoIdentity

\* ResolveIdentity of a command, given what AKB_AUTHOR_* and akb.yaml name: the
\* author of its commit, or NoIdentity for ErrNoCommitIdentity.  Nothing named
\* leaves both idents to git.
ResolveIdentity(env, recorded) ==
    LET named == Fill(env, recorded)
        filled == Fill(named, NativeIdentity)
    IN  IF named = NoIdentity
        THEN IF Complete(CommitterIdent) THEN AuthorIdent ELSE NoIdentity
        ELSE IF Complete(filled) THEN filled ELSE NoIdentity

-----------------------------------------------------------------------------
(* The steps of an invocation.                                             *)

Ends(r) == pc' = "end" /\ result' = r
Goto(next) == pc' = next /\ UNCHANGED result

\* The refusals that come before anything is written.
Check ==
    /\ pc = "check"
    /\ LET host == world.host # "none"
           usage == \/ world.embed /\ ~host
                    \/ host /\ ~world.embed /\ ~world.noGit
                    \/ world.host = "root" /\ ~world.force
       IN  IF world.embed /\ world.noGit THEN Ends("usage")
           ELSE IF world.exists THEN Ends("exists")
           ELSE IF usage THEN Ends("usage")
           ELSE Goto("dirs")
    /\ UNCHANGED <<world, made, config, author>>

\* The three directories, in order; a failure leaves the ones before it.
ConfigNext == "config"
AfterDirs == "seeds"
MakeDirs ==
    /\ pc = "dirs"
    /\ \E n \in 0 .. Len(Dirs) :
        /\ made' = made \cup {Dirs[i] : i \in 1 .. n}
        /\ IF n = Len(Dirs) THEN Goto(AfterDirs) ELSE Ends("failed")
    /\ UNCHANGED <<world, config, author>>

\* The seed files, in the order of a Go map.
WriteSeeds ==
    /\ pc = "seeds"
    /\ \E s \in SUBSET Seeds :
        /\ made' = made \cup s
        /\ IF s = Seeds THEN Goto("config") ELSE Ends("failed")
    /\ UNCHANGED <<world, config, author>>

WriteConfig ==
    /\ pc = "config"
    /\ \/ /\ made' = made \cup {"config"}
          /\ config' = IF world.noGit THEN NoIdentity ELSE Recorded
          /\ Goto("db")
       \/ Ends("failed") /\ UNCHANGED <<made, config>>
    /\ UNCHANGED <<world, author>>

InitDB ==
    /\ pc = "db"
    /\ \/ made' = made \cup {"db"} /\ Goto("ignore")
       \/ Ends("failed") /\ UNCHANGED made
    /\ UNCHANGED <<world, config, author>>

\* The root .gitignore belongs to the host when an unversioned base is at its
\* root.
AlwaysRootIgnore == {"stateIgnore", "rootIgnore"}
IgnoreFiles ==
    {"stateIgnore"} \cup (IF world.noGit /\ world.host = "root" THEN {} ELSE {"rootIgnore"})

WriteIgnores ==
    /\ pc = "ignore"
    /\ \E s \in SUBSET IgnoreFiles :
        /\ "rootIgnore" \in s => "stateIgnore" \in s
        /\ made' = made \cup s
        /\ IF s # IgnoreFiles THEN Ends("failed")
           ELSE IF ~world.noGit THEN Goto("repo")
           ELSE IF world.host = "none" THEN Ends("ok")
           ELSE Goto("exclude")
    /\ UNCHANGED <<world, config, author>>

\* .git/info/exclude of the host.
Exclude ==
    /\ pc = "exclude"
    /\ \/ made' = made \cup {"exclude"} /\ Ends("ok")
       \/ Ends("failed") /\ UNCHANGED made
    /\ UNCHANGED <<world, config, author>>

\* `git init` of a standalone base; --no-commit only stages, which may fail too.
MakeRepo ==
    /\ pc = "repo"
    /\ \/ /\ made' = IF world.embed THEN made ELSE made \cup {"repo"}
          /\ IF world.noCommit THEN Ends("ok") \/ Ends("failed") ELSE Goto("preflight")
       \/ Ends("failed") /\ UNCHANGED made
    /\ UNCHANGED <<world, config, author>>

\* Store.Commit: the merge state, then the identity, with the flags exported
\* over the environment.  A new repository has no merge.
FlagsNotExported == ResolveIdentity(Env, config)
CommitIdentity == ResolveIdentity(Fill(Flags, Env), config)
Preflight ==
    /\ pc = "preflight"
    /\ IF world.embed /\ world.merging THEN Ends("merging")
       ELSE IF CommitIdentity = NoIdentity THEN Ends("noIdentity")
       ELSE Goto("commit")
    /\ UNCHANGED <<world, made, config, author>>

Commit ==
    /\ pc = "commit"
    /\ \/ author' = CommitIdentity /\ Ends("ok")
       \/ Ends("failed") /\ UNCHANGED author
    /\ UNCHANGED <<world, made, config>>

Next ==
    \/ Check \/ MakeDirs \/ WriteSeeds \/ WriteConfig \/ InitDB \/ WriteIgnores \/ Exclude
    \/ MakeRepo \/ Preflight \/ Commit

Spec == Init /\ [][Next]_vars

\* ResolveKB and discovery accept a directory with an akb.yaml.
Selectable == config # NoConfig

-----------------------------------------------------------------------------
(* Properties.                                                             *)

\* An init that fails part way through leaves either nothing that commands accept
\* as a base or one with its directories
\* and its three seed files, whose readers need no case for a missing one.
SelectableIsSeeded ==
    Selectable => {"kb", "raw", "state"} \cup Seeds \subseteq made

\* A base without versioning stays out of its host's history: at the root of the
\* repository it leaves the .gitignore the host tracks alone, it creates no
\* repository and no commit, and a success has excluded it from the host's status.
HostStaysClean ==
    world.noGit /\ world.host # "none" =>
        /\ "repo" \notin made /\ author = NoIdentity
        /\ world.host = "root" => "rootIgnore" \notin made
        /\ result = "ok" => "exclude" \in made

\* The identity the invocation reports is the author of its commit, where git's
\* configuration names both fields or neither.
ReportedIsCommitted ==
    author # NoIdentity /\ UserConfig \in {u \in Identity : (u.name = "") <=> (u.email = "")} =>
        author = ResolveInitIdentity

\* A base whose init committed under a declared pair, or without any flag, takes
\* the next commit in the same environment too.
LaterCommitsResolve ==
    author # NoIdentity /\ ((world.flagName = "") <=> (world.flagEmail = "")) =>
        ResolveIdentity(Env, config) # NoIdentity

\* An init that is refused for want of a commit identity, or by a merge in the
\* host, has written nothing.
RefusesBeforeWriting == result \in {"merging", "noIdentity"} => made = {}
=============================================================================
