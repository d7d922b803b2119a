----------------------------- MODULE BaseProofs -----------------------------
(***************************************************************************)
(* What `akb init` leaves in a base, and what the commands make of the two *)
(* files it seeds there, kb/index.md and kb/log.md.                        *)
(*                                                                         *)
(* The first part is proved for every world of InitBase.  Its invariant    *)
(* IInv says how far the invocation has come when akb.yaml is there, what  *)
(* an unversioned base has kept away from, and which identity its commit   *)
(* has; the two properties of identities follow from it by the order in    *)
(* which the sources are asked.                                            *)
(*                                                                         *)
(* The second part is proved for every set of words, paths, pages and      *)
(* texts of ManagedFiles.  It first says what the operators on sequences   *)
(* return, then what parsing gives back of what was rendered: RoundTrip    *)
(* for the index, LogBack for the log.  IndexInv, TellsInv and LogInv are  *)
(* the invariants that follow.                                             *)
(***************************************************************************)
EXTENDS InitBase, ManagedFiles, FiniteSetTheorems, WellFoundedInduction, TLAPS

Directories == {"kb", "raw", "state"}

\* akb.yaml comes after the directories and the seeds, and is written once.
ConfigInv ==
    /\ pc \in {"check", "dirs", "seeds", "config"} => config = NoConfig
    /\ pc \in {"db", "ignore", "exclude", "repo", "preflight", "commit"} => config # NoConfig
    /\ config \in {NoConfig, IF world.noGit THEN NoIdentity ELSE Recorded}
    /\ pc \in {"seeds", "config"} => Directories \subseteq made
    /\ pc = "config" \/ config # NoConfig => Directories \cup Seeds \subseteq made

\* An unversioned base never comes to the steps that make a repository.
HostInv ==
    /\ pc \in {"repo", "preflight", "commit"} => ~world.noGit
    /\ world.noGit => "repo" \notin made /\ author = NoIdentity
    /\ world.noGit /\ world.host = "root" => "rootIgnore" \notin made
    /\ world.noGit /\ world.host # "none" /\ result = "ok" => "exclude" \in made

\* The author is the identity the commit resolved.
AuthorInv ==
    author # NoIdentity => author = CommitIdentity /\ config = Recorded

IInv == TypeOK /\ ConfigInv /\ HostInv /\ AuthorInv

-----------------------------------------------------------------------------
(* The operators on identities.                                            *)

LEMMA FirstOfTwo ==
    ASSUME NEW a, NEW b
    PROVE  FirstNonEmpty(<<a, b>>) = IF a # "" THEN a ELSE b
<1> DEFINE pair == <<a, b>>
           I == {i \in 1 .. Len(pair) : pair[i] # ""}
           m == IF I # {} THEN Min(I) ELSE 0
<1>1. FirstNonEmpty(pair) = IF m = 0 THEN "" ELSE pair[m]
  BY DEF FirstNonEmpty, SelectInSeq
<1>2. pair[1] = a /\ pair[2] = b
  OBVIOUS
<1>3. \A i : i \in I <=> (i = 1 /\ a # "") \/ (i = 2 /\ b # "")
  <2>1. \A i : i \in 1 .. Len(pair) <=> i = 1 \/ i = 2
    OBVIOUS
  <2> QED
    BY <1>2, <2>1
<1>4. m = IF I # {} THEN Min(I) ELSE 0
  OBVIOUS
<1> HIDE DEF I, pair, m
<1>5. CASE a # ""
  <2>1. I \subseteq {1, 2} /\ 1 \in I
    BY <1>3, <1>5
  <2>2. \E x \in I : \A y \in I : x <= y
    <3>1. \A y \in {1, 2} : 1 <= y
      OBVIOUS
    <3> QED
      BY <2>1, <3>1
  <2>3. Min(I) \in I /\ \A y \in I : Min(I) <= y
    BY <2>2 DEF Min
  <2>4. Min(I) = 1
    <3>1. Min(I) \in {1, 2}
      BY <2>1, <2>3
    <3>2. Min(I) <= 1
      BY <2>1, <2>3
    <3> QED
      BY <3>1, <3>2
  <2>5. m = 1
    BY <1>4, <2>1, <2>4
  <2>6. FirstNonEmpty(pair) = a
    BY <1>1, <1>2, <2>5
  <2> QED
    BY <1>5, <2>6 DEF pair
<1>6. CASE a = "" /\ b # ""
  <2>1. I = {2}
    BY <1>3, <1>6
  <2>2. Min(I) = 2
    BY <2>1 DEF Min
  <2>3. m = 2
    BY <1>4, <2>1, <2>2
  <2>4. FirstNonEmpty(pair) = b
    BY <1>1, <1>2, <2>3
  <2> QED
    BY <1>6, <2>4 DEF pair
<1>7. CASE a = "" /\ b = ""
  <2>1. m = 0
    BY <1>3, <1>4, <1>7
  <2>2. FirstNonEmpty(pair) = ""
    BY <1>1, <2>1
  <2> QED
    BY <1>7, <2>2 DEF pair
<1> QED
  BY <1>5, <1>6, <1>7

\* Fill takes each field from the first identity that names it.
LEMMA FillFields ==
    ASSUME NEW a, NEW b
    PROVE  Fill(a, b) = [name  |-> IF a.name # "" THEN a.name ELSE b.name,
                         email |-> IF a.email # "" THEN a.email ELSE b.email]
BY FirstOfTwo DEF Fill

LEMMA FillType ==
    ASSUME NEW a \in Identity, NEW b \in Identity
    PROVE  /\ Fill(a, b) \in Identity
           /\ Fill(a, b).name = IF a.name # "" THEN a.name ELSE b.name
           /\ Fill(a, b).email = IF a.email # "" THEN a.email ELSE b.email
BY FillFields DEF Identity

LEMMA SameIdentity ==
    ASSUME NEW a \in Identity, NEW b \in Identity, a.name = b.name, a.email = b.email
    PROVE  a = b
<1>1. /\ a = [name |-> a.name, email |-> a.email]
      /\ b = [name |-> b.name, email |-> b.email]
  BY DEF Identity
<1> QED
  BY <1>1

LEMMA NoIdentityFacts ==
    /\ NoIdentity \in Identity /\ NoIdentity.name = "" /\ NoIdentity.email = ""
    /\ ~Complete(NoIdentity)
    /\ NoConfig \notin Identity
<1>1. NoIdentity \in Identity /\ NoIdentity.name = "" /\ NoIdentity.email = ""
  BY DEF NoIdentity, Identity, Sources
<1>2. NoConfig.name = "none" /\ \A a \in Identity : a.name # "none"
  BY DEF NoConfig, Identity, Sources
<1> QED
  BY <1>1, <1>2 DEF Complete

\* Filling has NoIdentity for a unit, stops at a whole identity and makes one
\* from a whole identity.
LEMMA FillLaws ==
    ASSUME NEW a \in Identity, NEW b \in Identity
    PROVE  /\ Fill(a, NoIdentity) = a /\ Fill(NoIdentity, a) = a
           /\ Complete(a) => Fill(a, b) = a
           /\ Complete(b) => Complete(Fill(a, b))
<1>1. Fill(a, NoIdentity) = a
  <2>1. /\ Fill(a, NoIdentity) \in Identity
        /\ Fill(a, NoIdentity).name = a.name /\ Fill(a, NoIdentity).email = a.email
    BY NoIdentityFacts, FillType
  <2> QED
    BY <2>1, SameIdentity
<1>2. Fill(NoIdentity, a) = a
  <2>1. /\ Fill(NoIdentity, a) \in Identity
        /\ Fill(NoIdentity, a).name = a.name /\ Fill(NoIdentity, a).email = a.email
    BY NoIdentityFacts, FillType
  <2> QED
    BY <2>1, SameIdentity
<1>3. ASSUME Complete(a) PROVE Fill(a, b) = a
  <2>1. /\ Fill(a, b) \in Identity
        /\ Fill(a, b).name = a.name /\ Fill(a, b).email = a.email
    BY <1>3, FillType DEF Complete
  <2> QED
    BY <2>1, SameIdentity
<1>4. ASSUME Complete(b) PROVE Complete(Fill(a, b))
  BY <1>4, FillType DEF Complete
<1> QED
  BY <1>1, <1>2, <1>3, <1>4

\* Nobody is asked twice.
LEMMA FillTwice ==
    ASSUME NEW a \in Identity, NEW b \in Identity
    PROVE  Fill(a, Fill(a, b)) = Fill(a, b)
<1>1. /\ Fill(a, b) \in Identity
      /\ Fill(a, b).name = IF a.name # "" THEN a.name ELSE b.name
      /\ Fill(a, b).email = IF a.email # "" THEN a.email ELSE b.email
  BY FillType
<1>2. PICK c \in Identity : c = Fill(a, b)
  BY <1>1
<1>3. /\ Fill(a, c) \in Identity
      /\ Fill(a, c).name = IF a.name # "" THEN a.name ELSE c.name
      /\ Fill(a, c).email = IF a.email # "" THEN a.email ELSE c.email
  BY FillType
<1>4. Fill(a, c).name = c.name /\ Fill(a, c).email = c.email
  BY <1>1, <1>2, <1>3
<1> QED
  BY <1>2, <1>3, <1>4, SameIdentity

\* The order of asking is that of the list, however it is bracketed.
LEMMA FillAssociates ==
    ASSUME NEW a \in Identity, NEW b \in Identity, NEW c \in Identity
    PROVE  Fill(Fill(a, b), c) = Fill(a, Fill(b, c))
<1>1. /\ Fill(a, b) \in Identity
      /\ Fill(a, b).name = IF a.name # "" THEN a.name ELSE b.name
      /\ Fill(a, b).email = IF a.email # "" THEN a.email ELSE b.email
  BY FillType
<1>2. /\ Fill(b, c) \in Identity
      /\ Fill(b, c).name = IF b.name # "" THEN b.name ELSE c.name
      /\ Fill(b, c).email = IF b.email # "" THEN b.email ELSE c.email
  BY FillType
<1>3. PICK d \in Identity : d = Fill(a, b)
  BY <1>1
<1>4. PICK e \in Identity : e = Fill(b, c)
  BY <1>2
<1>5. /\ Fill(d, c) \in Identity
      /\ Fill(d, c).name = IF d.name # "" THEN d.name ELSE c.name
      /\ Fill(d, c).email = IF d.email # "" THEN d.email ELSE c.email
  BY FillType
<1>6. /\ Fill(a, e) \in Identity
      /\ Fill(a, e).name = IF a.name # "" THEN a.name ELSE e.name
      /\ Fill(a, e).email = IF a.email # "" THEN a.email ELSE e.email
  BY FillType
<1>7. Fill(d, c).name = Fill(a, e).name /\ Fill(d, c).email = Fill(a, e).email
  BY <1>1, <1>2, <1>3, <1>4, <1>5, <1>6
<1>8. Fill(d, c) = Fill(a, e)
  BY <1>5, <1>6, <1>7, SameIdentity
<1> QED
  BY <1>3, <1>4, <1>8

\* What git names is a whole identity or none.
LEMMA IdentType ==
    ASSUME TypeOK, NEW exported \in {"", "exported"}
    PROVE  Ident(exported) \in Identity /\ (Ident(exported) = NoIdentity \/ Complete(Ident(exported)))
<1>1. /\ [name |-> exported, email |-> exported] \in Identity
      /\ UserConfig \in Identity /\ NoIdentity \in Identity
  BY DEF TypeOK, Worlds, UserConfig, Identity, Sources, NoIdentity
<1> QED
  BY <1>1, FillType DEF Ident

LEMMA IdentityTypes ==
    ASSUME TypeOK
    PROVE  /\ Flags \in Identity /\ Env \in Identity /\ Default \in Identity /\ Complete(Default)
           /\ UserConfig \in Identity /\ NoIdentity \in Identity
           /\ AuthorIdent \in Identity /\ (AuthorIdent = NoIdentity \/ Complete(AuthorIdent))
           /\ CommitterIdent \in Identity
           /\ NativeIdentity \in Identity
<1>1. /\ Flags \in Identity /\ Env \in Identity /\ Default \in Identity /\ Complete(Default)
      /\ UserConfig \in Identity /\ NoIdentity \in Identity
  BY DEF TypeOK, Worlds, Flags, Env, Default, Complete, UserConfig, Identity, Sources, NoIdentity
<1>2. world.gitAuthor \in {"", "exported"} /\ world.gitCommitter \in {"", "exported"}
  BY DEF TypeOK, Worlds
<1> QED
  BY <1>1, <1>2, IdentType DEF AuthorIdent, CommitterIdent, NativeIdentity

\* The identity of an init is whole, whatever names it.
LEMMA InitIdentityType ==
    ASSUME TypeOK
    PROVE  /\ ResolveInitIdentity \in Identity /\ Complete(ResolveInitIdentity)
           /\ Recorded \in Identity
<1>1. ResolveInitIdentity \in Identity /\ Complete(ResolveInitIdentity)
  <2>1. PICK id \in Identity : id = Fill(Fill(Flags, Env), AuthorIdent)
    BY IdentityTypes, FillType
  <2>2. ResolveInitIdentity = Fill(id, Default)
    BY <2>1 DEF ResolveInitIdentity
  <2> QED
    BY <2>1, <2>2, IdentityTypes, FillType DEF Complete
<1> QED
  BY <1>1, IdentityTypes DEF Recorded

\* A command commits as a whole identity or refuses.
LEMMA ResolveType ==
    ASSUME TypeOK, NEW env \in Identity, NEW recorded \in Identity
    PROVE  /\ ResolveIdentity(env, recorded) \in Identity
           /\ ResolveIdentity(env, recorded) = NoIdentity \/ Complete(ResolveIdentity(env, recorded))
<1>1. Fill(Fill(env, recorded), NativeIdentity) \in Identity
  BY IdentityTypes, FillType
<1> QED
  BY <1>1, IdentityTypes DEF ResolveIdentity

\* Git's own identity is whole if its configuration is.
LEMMA ConfiguredAuthor ==
    ASSUME TypeOK, Complete(UserConfig)
    PROVE  Complete(AuthorIdent)
<1>1. /\ [name |-> world.gitAuthor, email |-> world.gitAuthor] \in Identity
      /\ UserConfig \in Identity
  BY DEF TypeOK, Worlds, UserConfig, Identity, Sources
<1>2. Complete(Fill([name |-> world.gitAuthor, email |-> world.gitAuthor], UserConfig))
  BY <1>1, FillType DEF Complete
<1> QED
  BY <1>2 DEF AuthorIdent, Ident

\* The identity an init reports is the one its commit resolves, where git's
\* configuration names both fields or neither.
LEMMA CommitsAsReported ==
    ASSUME TypeOK, (UserConfig.name = "") <=> (UserConfig.email = ""), config = Recorded,
           CommitIdentity # NoIdentity
    PROVE  CommitIdentity = ResolveInitIdentity
<1>1. PICK env \in Identity : env = Fill(Flags, Env)
  BY IdentityTypes, FillType
<1>2. PICK named \in Identity : named = Fill(env, Recorded)
  BY IdentityTypes, InitIdentityType, FillType
<1>3. PICK filled \in Identity : filled = Fill(named, NativeIdentity)
  BY IdentityTypes, FillType
<1>4. PICK known \in Identity : known = Fill(env, AuthorIdent)
  BY IdentityTypes, FillType
<1>5. ResolveInitIdentity = Fill(known, Default)
  BY <1>1, <1>4 DEF ResolveInitIdentity
<1>6. CommitIdentity = IF named = NoIdentity
                       THEN IF Complete(CommitterIdent) THEN AuthorIdent ELSE NoIdentity
                       ELSE IF Complete(filled) THEN filled ELSE NoIdentity
  BY <1>1, <1>2, <1>3 DEF CommitIdentity, ResolveIdentity
<1>7. Complete(known) => ResolveInitIdentity = known
  BY <1>5, IdentityTypes, FillLaws
<1>8. CASE Recorded = ResolveInitIdentity
  <2>1. named = ResolveInitIdentity
    <3>1. PICK r \in Identity : r = Fill(AuthorIdent, Default)
      BY IdentityTypes, FillType
    <3>2. ResolveInitIdentity = Fill(env, r)
      <4>1. Fill(Fill(env, AuthorIdent), Default) = Fill(env, Fill(AuthorIdent, Default))
        <5>1. AuthorIdent \in Identity /\ Default \in Identity
          BY IdentityTypes
        <5>2. \A b, c \in Identity : Fill(Fill(env, b), c) = Fill(env, Fill(b, c))
          BY FillAssociates
        <5> QED
          BY <5>1, <5>2
      <4> QED
        BY <1>4, <1>5, <3>1, <4>1
    <3>3. Fill(env, Fill(env, r)) = Fill(env, r)
      BY FillTwice
    <3> QED
      BY <1>2, <1>8, <3>2, <3>3
  <2>2. Complete(named) /\ named # NoIdentity
    BY <2>1, InitIdentityType, NoIdentityFacts
  <2>3. filled = named
    BY <1>3, <2>2, IdentityTypes, FillLaws
  <2> QED
    BY <1>6, <2>1, <2>2, <2>3
<1>9. CASE Recorded = NoIdentity
  <2>1. named = env
    BY <1>2, <1>9, FillLaws
  <2>2. CASE env = NoIdentity
    <3>1. CommitIdentity = AuthorIdent /\ Complete(AuthorIdent)
      BY <1>6, <2>1, <2>2, IdentityTypes
    <3>2. known = AuthorIdent
      BY <1>4, <2>2, IdentityTypes, FillLaws
    <3> QED
      BY <1>7, <3>1, <3>2
  <2>3. CASE env # NoIdentity
    <3>1. CommitIdentity = filled /\ Complete(filled)
      BY <1>6, <2>1, <2>3
    <3>2. filled = known
      <4>1. CASE Complete(AuthorIdent)
        BY <1>3, <1>4, <2>1, <4>1 DEF NativeIdentity
      <4>2. CASE ~Complete(AuthorIdent)
        <5>1. AuthorIdent = NoIdentity /\ NativeIdentity = UserConfig
          BY <4>2, IdentityTypes DEF NativeIdentity
        <5>2. UserConfig = NoIdentity
          <6>1. UserConfig.name = "" /\ UserConfig.email = ""
            BY <4>2, ConfiguredAuthor DEF Complete
          <6> QED
            BY <6>1, IdentityTypes, NoIdentityFacts, SameIdentity
        <5> QED
          BY <1>3, <1>4, <2>1, <5>1, <5>2
      <4> QED
        BY <4>1, <4>2
    <3> QED
      BY <1>7, <3>1, <3>2
  <2> QED
    BY <2>2, <2>3
<1> QED
  BY <1>8, <1>9 DEF Recorded

\* Flags that name both fields are recorded, flags that name none add nothing.
LEMMA CommitsLater ==
    ASSUME TypeOK, (world.flagName = "") <=> (world.flagEmail = ""), config = Recorded,
           CommitIdentity # NoIdentity
    PROVE  ResolveIdentity(Env, config) # NoIdentity
<1>1. Flags.name = world.flagName /\ Flags.email = world.flagEmail
  BY DEF Flags
<1>2. CASE world.flagName = ""
  <2>1. Flags = NoIdentity
    BY <1>1, <1>2, IdentityTypes, NoIdentityFacts, SameIdentity
  <2>2. Fill(Flags, Env) = Env
    BY <2>1, IdentityTypes, FillLaws
  <2> QED
    BY <2>2 DEF CommitIdentity
<1>3. CASE world.flagName # ""
  <2>1. Complete(Flags)
    BY <1>1, <1>3 DEF Complete
  <2>2. config \in Identity /\ Complete(config)
    BY <2>1, InitIdentityType DEF Recorded
  <2>3. PICK named \in Identity : named = Fill(Env, config)
    BY <2>2, IdentityTypes, FillType
  <2>4. Complete(named) /\ named # NoIdentity
    <3>1. Complete(Fill(Env, config))
      BY <2>2, IdentityTypes, FillLaws
    <3> QED
      BY <2>3, <3>1, NoIdentityFacts
  <2>5. PICK filled \in Identity : filled = Fill(named, NativeIdentity)
    BY IdentityTypes, FillType
  <2>6. filled = named
    BY <2>4, <2>5, IdentityTypes, FillLaws
  <2> QED
    BY <2>3, <2>4, <2>5, <2>6 DEF ResolveIdentity
<1> QED
  BY <1>2, <1>3

-----------------------------------------------------------------------------
(* The steps.                                                              *)

\* What is recorded and what a commit resolves are of the world and akb.yaml.
LEMMA RecordedStays ==
    ASSUME world' = world
    PROVE  Recorded' = Recorded
<1>1. AuthorIdent' = AuthorIdent
  BY DEF AuthorIdent, Ident, UserConfig, Fill, Complete, NoIdentity
<1>2. Flags' = Flags /\ Env' = Env
  BY DEF Flags, Env
<1>3. ResolveInitIdentity' = ResolveInitIdentity
  BY <1>1, <1>2 DEF ResolveInitIdentity, Fill, Default
<1>4. InitSource' = InitSource
  BY <1>1, <1>2 DEF InitSource, Complete, NoIdentity
<1> QED
  BY <1>2, <1>3, <1>4 DEF Recorded, Complete, NoIdentity

LEMMA IdentitiesStay ==
    ASSUME world' = world, config' = config
    PROVE  Recorded' = Recorded /\ CommitIdentity' = CommitIdentity
<1>1. AuthorIdent' = AuthorIdent
  BY DEF AuthorIdent, Ident, UserConfig, Fill, Complete, NoIdentity
<1>2. CommitterIdent' = CommitterIdent
  BY DEF CommitterIdent, Ident, UserConfig, Fill, Complete, NoIdentity
<1>3. NativeIdentity' = NativeIdentity
  BY <1>1 DEF NativeIdentity, UserConfig, Complete
<1>4. Fill(Flags, Env)' = Fill(Flags, Env)
  BY DEF Flags, Env, Fill
<1>5. CommitIdentity' = CommitIdentity
  BY <1>1, <1>2, <1>3, <1>4 DEF CommitIdentity, ResolveIdentity, Fill, Complete, NoIdentity
<1> QED
  BY <1>5, RecordedStays

\* A failure leaves the directories before it.
LEMMA DirsMade ==
    ASSUME MakeDirs
    PROVE  /\ made \subseteq made' /\ made' \subseteq made \cup Directories
           /\ pc' = "seeds" => Directories \subseteq made'
<1>1. PICK n \in 0 .. Len(Dirs) : /\ made' = made \cup {Dirs[i] : i \in 1 .. n}
                                  /\ IF n = Len(Dirs) THEN Goto(AfterDirs) ELSE Ends("failed")
  BY DEF MakeDirs
<1>2. Len(Dirs) = 3 /\ Dirs[1] = "kb" /\ Dirs[2] = "raw" /\ Dirs[3] = "state"
  BY DEF Dirs
<1>3. \A i \in 1 .. n : i = 1 \/ i = 2 \/ i = 3
  BY <1>1, <1>2
<1>4. \A i \in 1 .. n : Dirs[i] \in Directories
  BY <1>2, <1>3 DEF Directories
<1>5. ASSUME pc' = "seeds" PROVE n = 3
  BY <1>1, <1>2, <1>5 DEF Ends
<1>6. n = 3 => Directories \subseteq {Dirs[i] : i \in 1 .. n}
  BY <1>2 DEF Directories
<1> QED
  BY <1>1, <1>4, <1>5, <1>6

LEMMA NextTypes == IInv /\ [Next]_vars => TypeOK'
<1> SUFFICES ASSUME IInv, [Next]_vars PROVE TypeOK'
  OBVIOUS
<1> USE DEF IInv, TypeOK, Ends, Goto, Results, Steps
<1>1. CASE UNCHANGED vars
  BY <1>1 DEF vars
<1>2. CASE Check
  BY <1>2 DEF Check
<1>3. CASE MakeDirs
  <2>1. made' \subseteq Made
    BY <1>3, DirsMade DEF Directories, Made
  <2> QED
    BY <1>3, <2>1 DEF MakeDirs, AfterDirs
<1>4. CASE WriteSeeds
  <2>1. made' \subseteq Made
    BY <1>4 DEF WriteSeeds, Made
  <2> QED
    BY <1>4, <2>1 DEF WriteSeeds
<1>5. CASE WriteConfig
  <2>1. config' \in Identity \cup {NoConfig} /\ (config # NoConfig => config' # NoConfig)
    BY <1>5, InitIdentityType, NoIdentityFacts DEF WriteConfig
  <2> QED
    BY <1>5, <2>1 DEF WriteConfig, Made
<1>6. CASE InitDB
  BY <1>6 DEF InitDB, Made
<1>7. CASE WriteIgnores
  <2>1. made' \subseteq Made
    BY <1>7 DEF WriteIgnores, IgnoreFiles, Made
  <2> QED
    BY <1>7, <2>1 DEF WriteIgnores
<1>8. CASE Exclude
  BY <1>8 DEF Exclude, Made
<1>9. CASE MakeRepo
  BY <1>9 DEF MakeRepo, Made
<1>10. CASE Preflight
  BY <1>10 DEF Preflight
<1>11. CASE Commit
  <2>1. config \in Identity /\ config # NoConfig
    BY <1>11 DEF Commit, ConfigInv
  <2>2. Fill(Flags, Env) \in Identity
    BY IdentityTypes, FillType
  <2>3. CommitIdentity \in Identity /\ (CommitIdentity = NoIdentity \/ Complete(CommitIdentity))
    BY <2>1, <2>2, ResolveType DEF CommitIdentity
  <2> QED
    BY <1>11, <2>1, <2>3 DEF Commit, Complete
<1> QED
  BY <1>1, <1>2, <1>3, <1>4, <1>5, <1>6, <1>7, <1>8, <1>9, <1>10, <1>11 DEF Next

LEMMA NextConfig == IInv /\ [Next]_vars => ConfigInv'
<1> SUFFICES ASSUME IInv, [Next]_vars PROVE ConfigInv'
  OBVIOUS
<1> USE DEF IInv, ConfigInv, Ends, Goto
<1>1. CASE UNCHANGED vars
  BY <1>1, IdentitiesStay DEF vars
<1>2. CASE Check \/ InitDB \/ WriteIgnores \/ Exclude \/ MakeRepo \/ Preflight \/ Commit
  <2>1. UNCHANGED <<world, config>> /\ made \subseteq made'
    BY <1>2 DEF Check, InitDB, WriteIgnores, Exclude, MakeRepo, Preflight, Commit
  <2>2. /\ pc' \notin {"seeds", "config"}
        /\ pc' \in {"check", "dirs"} => pc = "check"
        /\ pc' \in {"db", "ignore", "exclude", "repo", "preflight", "commit"} =>
              pc \in {"db", "ignore", "exclude", "repo", "preflight", "commit"}
    BY <1>2 DEF Check, InitDB, WriteIgnores, Exclude, MakeRepo, Preflight, Commit
  <2> QED
    BY <2>1, <2>2, IdentitiesStay
<1>3. CASE MakeDirs
  <2>1. UNCHANGED <<world, config>> /\ config = NoConfig /\ pc' \in {"seeds", "end"}
    BY <1>3 DEF MakeDirs, AfterDirs
  <2>2. pc' = "seeds" => Directories \subseteq made'
    BY <1>3, DirsMade
  <2> QED
    BY <2>1, <2>2
<1>4. CASE WriteSeeds
  <2>1. UNCHANGED <<world, config>> /\ config = NoConfig /\ pc' \in {"config", "end"}
    BY <1>4 DEF WriteSeeds
  <2>2. Directories \subseteq made' /\ (pc' = "config" => Seeds \subseteq made')
    BY <1>4 DEF WriteSeeds
  <2> QED
    BY <2>1, <2>2
<1>5. CASE WriteConfig
  <2>1. world' = world /\ made \subseteq made' /\ Directories \cup Seeds \subseteq made
    BY <1>5 DEF WriteConfig
  <2>2. CASE config' = config /\ pc' = "end"
    BY <2>1, <2>2, IdentitiesStay
  <2>3. CASE config' = (IF world.noGit THEN NoIdentity ELSE Recorded) /\ pc' = "db"
    <3>1. config' # NoConfig
      BY <2>3, InitIdentityType, NoIdentityFacts
    <3> QED
      BY <2>1, <2>3, <3>1, RecordedStays
  <2> QED
    BY <1>5, <2>2, <2>3 DEF WriteConfig
<1> QED
  BY <1>1, <1>2, <1>3, <1>4, <1>5 DEF Next

LEMMA NextHost == IInv /\ [Next]_vars => HostInv'
<1> SUFFICES ASSUME IInv, [Next]_vars PROVE HostInv'
  OBVIOUS
<1> USE DEF IInv, TypeOK, HostInv, Ends, Goto
<1>1. CASE UNCHANGED vars
  BY <1>1 DEF vars
<1>2. CASE Check \/ Preflight
  BY <1>2 DEF Check, Preflight
<1>3. CASE MakeDirs
  <2>1. made' \subseteq made \cup Directories
    BY <1>3, DirsMade
  <2> QED
    BY <1>3, <2>1 DEF MakeDirs, AfterDirs, Directories
<1>4. CASE WriteSeeds
  <2>1. made' \subseteq made \cup Seeds
    BY <1>4 DEF WriteSeeds
  <2> QED
    BY <1>4, <2>1 DEF WriteSeeds, Seeds
<1>5. CASE WriteConfig \/ InitDB
  BY <1>5 DEF WriteConfig, InitDB
<1>6. CASE WriteIgnores
  <2>1. /\ made' \subseteq made \cup IgnoreFiles /\ UNCHANGED <<world, author>>
        /\ pc' = "repo" => ~world.noGit
        /\ pc' \in {"repo", "exclude", "end"}
        /\ result' = "ok" => world.host = "none"
    BY <1>6 DEF WriteIgnores
  <2>2. "repo" \notin IgnoreFiles /\ (world.noGit /\ world.host = "root" => "rootIgnore" \notin IgnoreFiles)
    BY DEF IgnoreFiles
  <2> QED
    BY <2>1, <2>2
<1>7. CASE Exclude
  BY <1>7 DEF Exclude
<1>8. CASE MakeRepo
  BY <1>8 DEF MakeRepo
<1>9. CASE Commit
  BY <1>9 DEF Commit
<1> QED
  BY <1>1, <1>2, <1>3, <1>4, <1>5, <1>6, <1>7, <1>8, <1>9 DEF Next

LEMMA NextAuthor == IInv /\ [Next]_vars => AuthorInv'
<1> SUFFICES ASSUME IInv, [Next]_vars PROVE AuthorInv'
  OBVIOUS
<1>1. CASE WriteConfig
  <2>1. author' = NoIdentity
    BY <1>1 DEF IInv, TypeOK, ConfigInv, WriteConfig
  <2> QED
    BY <2>1 DEF AuthorInv, NoIdentity
<1>2. CASE ~WriteConfig
  <2>1. UNCHANGED <<world, config>>
    BY <1>2 DEF Next, vars, Check, MakeDirs, WriteSeeds, InitDB, WriteIgnores, Exclude, MakeRepo,
       Preflight, Commit
  <2>2. author' = author \/ (author' = CommitIdentity /\ config = Recorded)
    BY <1>2 DEF Next, vars, Check, MakeDirs, WriteSeeds, InitDB, WriteIgnores, Exclude, MakeRepo,
       Preflight, Commit, IInv, ConfigInv, HostInv
  <2>3. Recorded' = Recorded /\ CommitIdentity' = CommitIdentity
    BY <2>1, IdentitiesStay
  <2>4. author' # NoIdentity => author' = CommitIdentity /\ config = Recorded
    BY <2>2 DEF IInv, AuthorInv
  <2> QED
    BY <2>1, <2>3, <2>4 DEF AuthorInv
<1> QED
  BY <1>1, <1>2

-----------------------------------------------------------------------------
(* The theorems.                                                           *)

\* How far an invocation of `akb init` has come when its parts are there.
THEOREM InitInvariant == Spec => []IInv
<1>1. Init => IInv
  <2> SUFFICES ASSUME Init PROVE IInv
    OBVIOUS
  <2>1. TypeOK
    BY NoIdentityFacts DEF Init, TypeOK, Steps, Results, Made
  <2> QED
    BY <2>1 DEF Init, IInv, ConfigInv, HostInv, AuthorInv
<1>2. IInv /\ [Next]_vars => IInv'
  BY NextTypes, NextConfig, NextHost, NextAuthor DEF IInv
<1> QED
  BY <1>1, <1>2, PTL DEF Spec

\* The type invariant.
THEOREM InitType == Spec => []TypeOK
<1>1. IInv => TypeOK
  BY DEF IInv
<1> QED
  BY <1>1, InitInvariant, PTL

\* A directory that commands accept as a base has its three directories and its
\* three seed files, wherever the init that made it failed.
THEOREM SelectableAlwaysSeeded == Spec => []SelectableIsSeeded
<1>1. IInv => SelectableIsSeeded
  BY DEF IInv, ConfigInv, SelectableIsSeeded, Selectable, Directories
<1> QED
  BY <1>1, InitInvariant, PTL

\* A base without versioning stays out of the history of its host.
THEOREM HostAlwaysStaysClean == Spec => []HostStaysClean
<1>1. IInv => HostStaysClean
  BY DEF IInv, HostInv, HostStaysClean
<1> QED
  BY <1>1, InitInvariant, PTL

\* The identity that `akb init` reports is the author of its commit.
THEOREM ReportedAlwaysCommitted == Spec => []ReportedIsCommitted
<1>1. IInv => ReportedIsCommitted
  BY CommitsAsReported DEF IInv, AuthorInv, ReportedIsCommitted
<1> QED
  BY <1>1, InitInvariant, PTL

\* A base whose init committed takes the next commit in the same environment.
THEOREM LaterCommitsAlwaysResolve == Spec => []LaterCommitsResolve
<1>1. IInv => LaterCommitsResolve
  BY CommitsLater DEF IInv, AuthorInv, LaterCommitsResolve
<1> QED
  BY <1>1, InitInvariant, PTL

-----------------------------------------------------------------------------
(* Numbers: least and greatest elements.                                   *)

Smaller == {p \in Nat \X Nat : p[1] < p[2]}

\* A set of numbers has a least element.
LEMMA LeastNat ==
    ASSUME NEW T, T \subseteq Nat, T # {}
    PROVE  \E n \in T : \A m \in T : n <= m
<1>1. IsWellFoundedOn(Smaller, Nat)
  BY NatLessThanWellFounded DEF OpToRel, Smaller
<1>2. PICK n \in T : \A m \in T : ~(<<m, n>> \in Smaller)
  BY <1>1, WFMin
<1>3. ASSUME NEW m \in T, ~(n <= m) PROVE FALSE
  <2>1. <<m, n>> \in Nat \X Nat /\ <<m, n>>[1] < <<m, n>>[2]
    BY <1>3
  <2>2. <<m, n>> \in Smaller
    BY <2>1 DEF Smaller
  <2> QED
    BY <1>2, <2>2
<1> QED
  BY <1>3

\* A bounded set of numbers has a greatest element.
LEMMA GreatestNat ==
    ASSUME NEW T, NEW N \in Nat, T \subseteq 0 .. N, T # {}
    PROVE  \E n \in T : \A m \in T : n >= m
<1> DEFINE U == {N - m : m \in T}
<1>1. U \subseteq Nat /\ U # {}
  <2>1. \A m \in T : N - m \in Nat
    OBVIOUS
  <2> QED
    BY <2>1
<1>2. PICK u \in U : \A v \in U : u <= v
  BY <1>1, LeastNat
<1>3. PICK n \in T : u = N - n
  OBVIOUS
<1>4. ASSUME NEW m \in T PROVE n >= m
  <2>1. u <= N - m
    BY <1>2
  <2> QED
    BY <1>3, <2>1
<1> QED
  BY <1>4

\* Min of SequencesExt is it.
LEMMA MinOfNats ==
    ASSUME NEW T, T \subseteq Nat, T # {}
    PROVE  Min(T) \in T /\ \A m \in T : Min(T) <= m
<1>1. \E n \in T : \A m \in T : n <= m
  BY LeastNat
<1> QED
  BY <1>1 DEF Min

\* So is Max.
LEMMA MaxOfNats ==
    ASSUME NEW T, NEW N \in Nat, T \subseteq 0 .. N, T # {}
    PROVE  Max(T) \in T /\ \A m \in T : Max(T) >= m
<1>1. \E n \in T : \A m \in T : n >= m
  BY GreatestNat
<1> QED
  BY <1>1 DEF Max

-----------------------------------------------------------------------------
(* A set of numbers in their order.                                        *)

\* InOrder lists every element once, in increasing order.
LEMMA InOrderIs ==
    ASSUME NEW S, S \subseteq Nat, IsFiniteSet(S)
    PROVE  /\ InOrder(S) \in Seq(S) /\ Len(InOrder(S)) = Cardinality(S)
           /\ \A i, j \in 1 .. Len(InOrder(S)) : i < j => InOrder(S)[i] < InOrder(S)[j]
           /\ \A k \in S : \E i \in 1 .. Len(InOrder(S)) : InOrder(S)[i] = k
<1> DEFINE n == Cardinality(S)
           Upto(k) == {j \in S : j <= k}
           rank == [k \in S |-> Cardinality(Upto(k))]
           At(i) == CHOOSE k \in S : Cardinality(Upto(k)) = i
           s == InOrder(S)
<1>1. n \in Nat
  BY FS_CardinalityType
<1>2. ASSUME NEW k \in S
      PROVE  IsFiniteSet(Upto(k)) /\ rank[k] \in 1 .. n
  <2>1. Upto(k) \in SUBSET S /\ k \in Upto(k)
    OBVIOUS
  <2> HIDE DEF Upto
  <2>2. IsFiniteSet(Upto(k)) /\ Cardinality(Upto(k)) <= n
    BY <2>1, FS_Subset
  <2>3. Cardinality(Upto(k)) \in Nat /\ Cardinality(Upto(k)) # 0
    BY <2>1, <2>2, FS_CardinalityType, FS_EmptySet
  <2> QED
    BY <1>1, <2>2, <2>3
<1>3. ASSUME NEW k \in S, NEW l \in S, k < l PROVE rank[k] < rank[l]
  <2>1. Upto(k) \in SUBSET Upto(l) /\ l \in Upto(l) /\ l \notin Upto(k)
    <3>1. k \in Nat /\ l \in Nat /\ \A j \in S : j \in Nat
      OBVIOUS
    <3>2. \A j \in S : j <= k => j <= l
      BY <1>3, <3>1
    <3>3. ~(l <= k) /\ l <= l
      BY <1>3, <3>1
    <3> QED
      BY <3>2, <3>3
  <2>2. IsFiniteSet(Upto(k)) /\ IsFiniteSet(Upto(l)) /\ rank[k] \in Nat /\ rank[l] \in Nat
    BY <1>2
  <2>3. rank[k] = Cardinality(Upto(k)) /\ rank[l] = Cardinality(Upto(l))
    OBVIOUS
  <2> HIDE DEF Upto, rank
  <2>4. Cardinality(Upto(k)) <= Cardinality(Upto(l)) /\ Cardinality(Upto(k)) # Cardinality(Upto(l))
    BY <2>1, <2>2, FS_Subset
  <2> QED
    BY <2>2, <2>3, <2>4
<1>4. ASSUME NEW k \in S, NEW l \in S PROVE rank[k] = rank[l] => k = l
  <2>1. k \in Nat /\ l \in Nat
    OBVIOUS
  <2>2. rank[k] \in Nat /\ rank[l] \in Nat
    BY <1>1, <1>2
  <2> HIDE DEF rank
  <2>3. CASE k < l
    BY <1>3, <2>2, <2>3
  <2>4. CASE l < k
    BY <1>3, <2>2, <2>4
  <2> QED
    BY <2>1, <2>3, <2>4
<1>5. \A i \in 1 .. n : \E k \in S : rank[k] = i
  <2>1. rank \in [S -> 1 .. n]
    BY <1>2
  <2> HIDE DEF rank
  <2>2. rank \in Injection(S, 1 .. n)
    BY <1>4, <2>1 DEF Injection, IsInjective
  <2>3. IsFiniteSet(1 .. n) /\ Cardinality(1 .. n) = n
    BY <1>1, FS_Interval
  <2>4. rank \in Surjection(S, 1 .. n)
    BY <2>2, <2>3, FS_Injection
  <2> QED
    BY <2>4 DEF Surjection
<1>6. s = [i \in 1 .. n |-> At(i)]
  BY DEF InOrder
<1>7. ASSUME NEW i \in 1 .. n PROVE s[i] \in S /\ rank[s[i]] = i
  <2>1. PICK k \in S : rank[k] = i
    BY <1>5
  <2>2. Cardinality(Upto(k)) = i
    BY <2>1
  <2> HIDE DEF Upto
  <2>3. s[i] = CHOOSE l \in S : Cardinality(Upto(l)) = i
    BY <1>6, <1>7
  <2>4. s[i] \in S /\ Cardinality(Upto(s[i])) = i
    BY <2>2, <2>3
  <2> QED
    BY <2>4
<1>8. s \in Seq(S) /\ Len(s) = n
  <2> HIDE DEF s, rank, At
  <2>1. \A i \in 1 .. n : s[i] \in S
    BY <1>7
  <2>2. s = [i \in 1 .. n |-> s[i]]
    BY <1>6
  <2>3. [i \in 1 .. n |-> s[i]] \in Seq(S) /\ Len([i \in 1 .. n |-> s[i]]) = n
    BY <1>1, <2>1
  <2> QED
    BY <2>2, <2>3, Zenon
<1>9. ASSUME NEW i \in 1 .. n, NEW j \in 1 .. n, i < j PROVE s[i] < s[j]
  <2>1. /\ s[i] \in S /\ rank[s[i]] = i /\ s[j] \in S /\ rank[s[j]] = j
    BY <1>7
  <2> HIDE DEF s, rank
  <2>2. PICK a \in S, b \in S : a = s[i] /\ b = s[j]
    BY <2>1
  <2>3. b < a => rank[b] < rank[a]
    BY <1>3
  <2>4. a \in Nat /\ b \in Nat /\ i \in Nat /\ j \in Nat
    OBVIOUS
  <2>5. a # b /\ ~(b < a)
    BY <1>9, <2>1, <2>2, <2>3, <2>4
  <2>6. a < b
    BY <2>4, <2>5
  <2> QED
    BY <2>2, <2>6
<1>10. ASSUME NEW k \in S PROVE \E i \in 1 .. n : s[i] = k
  <2>1. rank[k] \in 1 .. n
    BY <1>2
  <2>2. s[rank[k]] \in S /\ rank[s[rank[k]]] = rank[k]
    BY <1>7, <2>1
  <2> HIDE DEF s, rank
  <2> QED
    BY <1>4, <2>1, <2>2
<1> QED
  BY <1>8, <1>9, <1>10

-----------------------------------------------------------------------------
(* What FlattenSeq returns: each sequence at its offset, and nothing else. *)

Joins(f, s) ==
    /\ f[1] = s[1]
    /\ \A n \in 2 .. Len(s) : f[n] = f[n - 1] \o s[n]

\* The recursive function of FlattenSeq exists.
LEMMA FlattenDefined ==
    ASSUME NEW T, NEW s \in Seq(Seq(T)), s # <<>>
    PROVE  \E f \in [1 .. Len(s) -> Seq(T)] : FlattenSeq(s) = f[Len(s)] /\ Joins(f, s)
<1> DEFINE Body(f, n) == IF n = 1 THEN s[n] ELSE f[n - 1] \o s[n]
           Equation(f, k) == f = [n \in 1 .. k |-> Body(f, n)]
           Good(k) == k <= Len(s) => \E f \in [1 .. k -> Seq(T)] : Equation(f, k)
           Bad == {k \in Nat : ~Good(k)}
<1>1. Len(s) \in Nat \ {0} /\ \A n \in 1 .. Len(s) : s[n] \in Seq(T)
  OBVIOUS
<1>2. Bad = {}
  <2> SUFFICES ASSUME Bad # {} PROVE FALSE
    OBVIOUS
  <2>1. PICK k \in Bad : \A j \in Bad : k <= j
    <3>1. Bad \subseteq Nat
      OBVIOUS
    <3> HIDE DEF Bad
    <3> QED
      BY <3>1, LeastNat
  <2>2. k \in Nat /\ k <= Len(s) /\ ~\E f \in [1 .. k -> Seq(T)] : Equation(f, k)
    BY <2>1
  <2>3. CASE k = 0
    <3> DEFINE f == [n \in 1 .. 0 |-> s[n]]
    <3>1. f \in [1 .. 0 -> Seq(T)] /\ Equation(f, 0)
      OBVIOUS
    <3> HIDE DEF f, Equation
    <3> QED
      BY <2>2, <2>3, <3>1
  <2>4. CASE k # 0
    <3>1. k - 1 \in Nat /\ k - 1 <= Len(s) /\ ~(k <= k - 1)
      BY <1>1, <2>2, <2>4
    <3>2. Good(k - 1)
      <4> HIDE DEF Good
      <4>1. k - 1 \notin Bad
        BY <2>1, <3>1
      <4> QED
        BY <3>1, <4>1
    <3>3. PICK f \in [1 .. k - 1 -> Seq(T)] : Equation(f, k - 1)
      BY <3>1, <3>2
    <3> DEFINE g == [n \in 1 .. k |-> IF n = k THEN Body(f, k) ELSE f[n]]
    <3>4. Body(f, k) \in Seq(T)
      <4>1. s[k] \in Seq(T)
        BY <1>1, <2>2, <2>4
      <4>2. k # 1 => f[k - 1] \in Seq(T)
        BY <2>2, <2>4, <3>3
      <4> QED
        BY <4>1, <4>2
    <3>5. \A n \in 1 .. k : n # k => n \in 1 .. k - 1
      BY <2>2
    <3>6. g \in [1 .. k -> Seq(T)]
      BY <3>3, <3>4, <3>5
    <3>7. \A n \in 1 .. k : g[n] = Body(g, n)
      <4> SUFFICES ASSUME NEW n \in 1 .. k PROVE g[n] = Body(g, n)
        OBVIOUS
      <4>1. n = 1 \/ (n - 1 \in 1 .. k /\ n - 1 # k)
        BY <2>2
      <4>2. n # 1 => g[n - 1] = f[n - 1]
        BY <4>1
      <4>3. Body(g, n) = Body(f, n)
        BY <4>2
      <4>4. CASE n = k
        BY <4>3, <4>4
      <4>5. CASE n # k
        <5>1. f[n] = Body(f, n)
          BY <3>3, <3>5, <4>5
        <5>2. g[n] = f[n]
          BY <4>5
        <5> QED
          BY <4>3, <5>1, <5>2
      <4> QED
        BY <4>4, <4>5
    <3>8. Equation(g, k)
      <4>1. g = [n \in 1 .. k |-> g[n]]
        OBVIOUS
      <4> HIDE DEF g, Body
      <4> QED
        BY <3>7, <4>1
    <3> HIDE DEF g, Equation
    <3> QED
      BY <2>2, <3>6, <3>8
  <2> QED
    BY <2>3, <2>4
<1>3. \E f \in [1 .. Len(s) -> Seq(T)] : Equation(f, Len(s))
  <2>1. Good(Len(s))
    <3> HIDE DEF Good
    <3> QED
      BY <1>1, <1>2
  <2>2. Len(s) <= Len(s)
    BY <1>1
  <2> HIDE DEF Equation
  <2> QED
    BY <2>1, <2>2
<1> DEFINE flat == CHOOSE f : Equation(f, Len(s))
<1>4. Equation(flat, Len(s))
  BY <1>3
<1>5. Len(s) # 0
  BY <1>1
<1>6. FlattenSeq(s) = flat[Len(s)]
  BY <1>5, Zenon DEF FlattenSeq
<1>7. /\ flat = [n \in 1 .. Len(s) |-> flat[n]]
      /\ \A n \in 1 .. Len(s) : flat[n] = Body(flat, n)
  <2>1. flat = [n \in 1 .. Len(s) |-> Body(flat, n)]
    BY <1>4
  <2> HIDE DEF flat, Body
  <2> QED
    BY <2>1
<1>8. \A n \in 1 .. Len(s) : flat[n] \in Seq(T)
  <2> DEFINE Odd == {n \in 1 .. Len(s) : flat[n] \notin Seq(T)}
  <2> HIDE DEF flat
  <2> SUFFICES ASSUME Odd # {} PROVE FALSE
    OBVIOUS
  <2>1. PICK n \in Odd : \A j \in Odd : n <= j
    <3>1. Odd \subseteq Nat
      BY <1>1
    <3> HIDE DEF Odd
    <3> QED
      BY <3>1, LeastNat
  <2>2. n \in 1 .. Len(s) /\ flat[n] \notin Seq(T) /\ flat[n] = Body(flat, n) /\ s[n] \in Seq(T)
    BY <1>1, <1>7, <2>1
  <2>3. n # 1
    BY <2>2
  <2>4. n - 1 \in 1 .. Len(s) /\ ~(n <= n - 1)
    BY <1>1, <2>2, <2>3
  <2>5. flat[n - 1] \in Seq(T)
    BY <2>1, <2>4
  <2> QED
    BY <2>2, <2>3, <2>5
<1>9. Joins(flat, s)
  <2> HIDE DEF flat
  <2>1. 1 \in 1 .. Len(s) /\ \A n \in 2 .. Len(s) : n \in 1 .. Len(s) /\ n # 1
    BY <1>1
  <2> QED
    BY <1>7, <2>1 DEF Joins
<1>10. flat \in [1 .. Len(s) -> Seq(T)]
  <2> HIDE DEF flat
  <2> QED
    BY <1>7, <1>8
<1> HIDE DEF flat
<1> QED
  BY <1>6, <1>9, <1>10

\* The n-th sequence of s lies in flat after the first o[n] elements.
Offsets(o, s, flat) ==
    /\ o \in [1 .. Len(s) + 1 -> Nat]
    /\ Len(flat) = o[Len(s) + 1]
    /\ o[1] = 0
    /\ \A n \in 1 .. Len(s) : o[n + 1] = o[n] + Len(s[n])
    /\ \A n \in 1 .. Len(s), m \in Nat \ {0} : m <= Len(s[n]) => flat[o[n] + m] = s[n][m]
    /\ \A n, k \in 1 .. Len(s) + 1 : n <= k => o[n] <= o[k]
    /\ \A i \in 1 .. Len(flat) :
          \E n \in 1 .. Len(s), m \in Nat \ {0} : m <= Len(s[n]) /\ i = o[n] + m

\* FlattenSeq returns the sequences one after another.
LEMMA FlattenIs ==
    ASSUME NEW T, NEW s \in Seq(Seq(T))
    PROVE  FlattenSeq(s) \in Seq(T) /\ \E o : Offsets(o, s, FlattenSeq(s))
<1>1. CASE s = <<>>
  <2> DEFINE o == [n \in 1 .. 1 |-> 0]
  <2>1. Len(s) = 0 /\ FlattenSeq(s) = s
    BY <1>1 DEF FlattenSeq
  <2>2. o \in [1 .. Len(s) + 1 -> Nat] /\ o[1] = 0 /\ o[Len(s) + 1] = 0
    BY <2>1
  <2>3. FlattenSeq(s) \in Seq(T) /\ Len(FlattenSeq(s)) = 0
    <3>1. <<>> \in Seq(T) /\ Len(<<>>) = 0
      OBVIOUS
    <3>2. FlattenSeq(s) = <<>>
      BY <1>1, <2>1, Zenon
    <3> QED
      BY <3>1, <3>2
  <2>4. \A n, k \in 1 .. Len(s) + 1 : n <= k => o[n] <= o[k]
    BY <2>1
  <2> HIDE DEF o
  <2>5. Offsets(o, s, FlattenSeq(s))
    BY <2>1, <2>2, <2>3, <2>4 DEF Offsets
  <2> QED
    BY <2>3, <2>5
<1>2. CASE s # <<>>
  <2>1. PICK f \in [1 .. Len(s) -> Seq(T)] : FlattenSeq(s) = f[Len(s)] /\ Joins(f, s)
    BY <1>2, FlattenDefined
  <2> DEFINE N == Len(s)
             o == [n \in 1 .. N + 1 |-> IF n = 1 THEN 0 ELSE Len(f[n - 1])]
  <2>2. N \in Nat \ {0} /\ \A n \in 1 .. N : s[n] \in Seq(T) /\ f[n] \in Seq(T)
    <3>1. Len(s) \in Nat \ {0} /\ \A n \in 1 .. Len(s) : s[n] \in Seq(T)
      BY <1>2
    <3>2. \A n \in 1 .. Len(s) : f[n] \in Seq(T)
      OBVIOUS
    <3> QED
      BY <3>1, <3>2
  <2> HIDE DEF N
  <2>3. ASSUME NEW n \in 1 .. N
        PROVE  /\ o[n + 1] = Len(f[n]) /\ o[n] \in Nat /\ o[n + 1] = o[n] + Len(s[n])
               /\ n # 1 => n - 1 \in 1 .. N /\ o[n] = Len(f[n - 1]) /\ f[n] = f[n - 1] \o s[n]
               /\ n = 1 => o[n] = 0 /\ f[n] = s[n]
    <3>1. n \in Nat \ {0} /\ n <= N /\ n + 1 \in 1 .. N + 1 /\ n \in 1 .. N + 1
          /\ n + 1 # 1 /\ (n + 1) - 1 = n
      BY <2>2
    <3>2. o[n + 1] = Len(f[n])
      BY <3>1
    <3>3. CASE n = 1
      <4>1. f[n] = s[n] /\ o[n] = 0 /\ Len(s[n]) \in Nat
        BY <2>1, <2>2, <3>1, <3>3 DEF Joins
      <4> HIDE DEF o
      <4> QED
        BY <3>2, <3>3, <4>1
    <3>4. CASE n # 1
      <4>1. n \in 2 .. N /\ n - 1 \in 1 .. N
        BY <2>2, <3>1, <3>4
      <4>2. f[n] = f[n - 1] \o s[n]
        BY <2>1, <4>1 DEF Joins, N
      <4>3. f[n - 1] \in Seq(T) /\ s[n] \in Seq(T)
        BY <2>2, <4>1
      <4>4. o[n] = Len(f[n - 1])
        BY <3>1, <3>4
      <4>5. Len(f[n]) = Len(f[n - 1]) + Len(s[n]) /\ Len(f[n - 1]) \in Nat
        BY <4>2, <4>3
      <4> HIDE DEF o
      <4> QED
        BY <3>2, <3>4, <4>1, <4>2, <4>4, <4>5
    <3> QED
      BY <3>3, <3>4
  <2>4. o \in [1 .. N + 1 -> Nat] /\ o[1] = 0
    <3>1. \A n \in 1 .. N + 1 : n # 1 => n - 1 \in 1 .. N
      BY <2>2
    <3>2. \A n \in 1 .. N + 1 : n # 1 => Len(f[n - 1]) \in Nat
      BY <2>2, <3>1
    <3>3. 1 \in 1 .. N + 1
      BY <2>2
    <3> QED
      BY <3>2, <3>3
  <2> HIDE DEF o
  <2>5. \A n, k \in 1 .. N + 1 : n <= k => o[n] <= o[k]
    <3> DEFINE Bad == {k \in 1 .. N + 1 : \E n \in 1 .. N + 1 : n <= k /\ ~(o[n] <= o[k])}
    <3> SUFFICES ASSUME Bad # {} PROVE FALSE
      OBVIOUS
    <3>1. PICK k \in Bad : \A j \in Bad : k <= j
      <4>1. Bad \subseteq Nat
        BY <2>2
      <4> HIDE DEF Bad
      <4> QED
        BY <4>1, LeastNat
    <3>2. PICK n \in 1 .. N + 1 : n <= k /\ ~(o[n] <= o[k])
      BY <3>1
    <3>3. k \in 1 .. N + 1 /\ n # k
      <4>1. k \in 1 .. N + 1 /\ o[k] \in Nat
        BY <2>4, <3>1
      <4>2. o[k] <= o[k]
        BY <4>1
      <4> QED
        BY <3>2, <4>1, <4>2
    <3>4. PICK j \in 1 .. N : k = j + 1 /\ n <= j /\ ~(k <= j)
      <4>1. k - 1 \in 1 .. N /\ k = (k - 1) + 1 /\ n <= k - 1 /\ ~(k <= k - 1)
        BY <2>2, <3>2, <3>3
      <4> QED
        BY <4>1
    <3>5. j \notin Bad /\ j \in 1 .. N + 1
      BY <2>2, <3>1, <3>4
    <3>6. o[n] <= o[j]
      BY <3>4, <3>5
    <3>7. o[k] = o[j] + Len(s[j]) /\ Len(s[j]) \in Nat /\ o[j] \in Nat /\ o[n] \in Nat
      <4>1. s[j] \in Seq(T)
        BY <2>2, <3>4
      <4>2. Len(s[j]) \in Nat
        BY <4>1
      <4>3. o[j] \in Nat /\ o[n] \in Nat
        BY <2>4, <3>2, <3>5
      <4> QED
        BY <2>3, <3>4, <4>2, <4>3
    <3> QED
      BY <3>2, <3>6, <3>7
  <2> DEFINE Placed(k) ==
               \A n \in 1 .. k, m \in Nat \ {0} : m <= Len(s[n]) => f[k][o[n] + m] = s[n][m]
             Full(k) ==
               \A i \in 1 .. Len(f[k]) :
                  \E n \in 1 .. k, m \in Nat \ {0} : m <= Len(s[n]) /\ i = o[n] + m
             Odd == {k \in 1 .. N : ~(Placed(k) /\ Full(k))}
  <2>6. ASSUME NEW k \in 1 .. N, k # 1 => Placed(k - 1) /\ Full(k - 1)
        PROVE  Placed(k) /\ Full(k)
    <3>1. /\ k \in Nat \ {0} /\ s[k] \in Seq(T) /\ f[k] \in Seq(T) /\ Len(s[k]) \in Nat
          /\ o[k] \in Nat
      <4>1. k \in Nat \ {0} /\ s[k] \in Seq(T) /\ f[k] \in Seq(T)
        BY <2>2
      <4>2. Len(s[k]) \in Nat
        BY <4>1
      <4> QED
        BY <2>3, <4>1, <4>2
    <3>2. CASE k = 1
      <4>1. f[k] = s[k] /\ o[k] = 0
        BY <2>3, <3>2
      <4>2. Placed(k)
        BY <3>1, <3>2, <4>1
      <4>3. Full(k)
        <5> SUFFICES ASSUME NEW i \in 1 .. Len(f[k])
                     PROVE  \E n \in 1 .. k, m \in Nat \ {0} : m <= Len(s[n]) /\ i = o[n] + m
          OBVIOUS
        <5>1. k \in 1 .. k /\ i \in Nat \ {0} /\ i <= Len(s[k]) /\ i = o[k] + i
          BY <3>1, <4>1
        <5> QED
          BY <5>1
      <4> QED
        BY <4>2, <4>3
    <3>3. CASE k # 1
      <4>1. k - 1 \in 1 .. N /\ o[k] = Len(f[k - 1]) /\ f[k] = f[k - 1] \o s[k]
            /\ f[k - 1] \in Seq(T)
        BY <2>2, <2>3, <3>3
      <4>2. PICK g \in Seq(T) : g = f[k - 1]
        BY <4>1
      <4>3. /\ Len(f[k]) = o[k] + Len(s[k]) /\ Len(g) = o[k]
            /\ \A i \in 1 .. o[k] : f[k][i] = g[i]
            /\ \A m \in 1 .. Len(s[k]) : f[k][o[k] + m] = s[k][m]
        <5>1. PICK h \in Seq(T) : h = s[k]
          BY <3>1
        <5>2. f[k] = g \o h
          BY <4>1, <4>2, <5>1
        <5>3. Len(g) = o[k] /\ Len(g) \in Nat
          BY <4>1, <4>2
        <5>4. /\ Len(g \o h) = Len(g) + Len(h)
              /\ \A i \in 1 .. Len(g) : (g \o h)[i] = g[i]
              /\ \A m \in 1 .. Len(h) : (g \o h)[Len(g) + m] = h[m]
          OBVIOUS
        <5> QED
          BY <5>1, <5>2, <5>3, <5>4, Zenon
      <4>4. Placed(k)
        <5> SUFFICES ASSUME NEW n \in 1 .. k, NEW m \in Nat \ {0}, m <= Len(s[n])
                     PROVE  f[k][o[n] + m] = s[n][m]
          OBVIOUS
        <5>0. m <= Len(s[n])
          OBVIOUS
        <5>1. CASE n = k
          BY <3>1, <4>3, <5>1
        <5>2. CASE n # k
          <6>1. n \in 1 .. k - 1 /\ n \in 1 .. N /\ n + 1 \in 1 .. N + 1 /\ k \in 1 .. N + 1 /\ n + 1 <= k
            BY <2>2, <3>1, <5>2
          <6>2. g[o[n] + m] = s[n][m]
            BY <2>6, <3>3, <4>2, <6>1
          <6>3. o[n + 1] = o[n] + Len(s[n]) /\ o[n + 1] <= o[k] /\ o[n] \in Nat /\ Len(s[n]) \in Nat
            <7>1. s[n] \in Seq(T)
              BY <2>2, <6>1
            <7>2. Len(s[n]) \in Nat
              BY <7>1
            <7> QED
              BY <2>3, <2>5, <6>1, <7>2
          <6>4. o[n] + m \in 1 .. o[k]
            <7>1. PICK a \in Nat, b \in Nat, c \in Nat : a = o[n] /\ b = Len(s[n]) /\ c = o[k]
              BY <3>1, <6>3
            <7>2. m \in Nat \ {0} /\ m <= b
              BY <5>0, <7>1
            <7>3. a + b <= c
              BY <6>3, <7>1
            <7>4. a + m \in 1 .. c
              BY <7>2, <7>3
            <7> QED
              BY <7>1, <7>4
          <6> QED
            BY <4>3, <6>2, <6>4
        <5> QED
          BY <5>1, <5>2
      <4>5. Full(k)
        <5> SUFFICES ASSUME NEW i \in 1 .. Len(f[k])
                     PROVE  \E n \in 1 .. k, m \in Nat \ {0} : m <= Len(s[n]) /\ i = o[n] + m
          OBVIOUS
        <5>1. CASE i <= o[k]
          <6>1. i \in 1 .. Len(f[k - 1])
            BY <3>1, <4>2, <4>3, <5>1
          <6>2. PICK n \in 1 .. k - 1, m \in Nat \ {0} : m <= Len(s[n]) /\ i = o[n] + m
            BY <2>6, <3>3, <6>1
          <6>3. n \in 1 .. k
            BY <3>1
          <6> QED
            BY <6>2, <6>3
        <5>2. CASE ~(i <= o[k])
          <6>1. PICK c \in Seq(T), h \in Seq(T) : c = f[k - 1] /\ h = s[k] /\ f[k] = c \o h
            BY <3>1, <4>1
          <6>2. PICK a \in Nat, b \in Nat : a = Len(c) /\ b = Len(h) /\ Len(c \o h) = a + b
            OBVIOUS
          <6>3. a = o[k] /\ b = Len(s[k])
            BY ONLY <4>1, <6>1, <6>2
          <6>4. i \in 1 .. a + b /\ ~(i <= a)
            <7>1. i \in 1 .. Len(f[k])
              OBVIOUS
            <7> QED BY ONLY <5>2, <6>1, <6>2, <6>3, <7>1
          <6>5. PICK m \in Nat \ {0} : m <= b /\ i = a + m
            <7>1. i - a \in Nat \ {0} /\ i - a <= b /\ i = a + (i - a)
              BY ONLY <6>4, a \in Nat, b \in Nat
            <7> QED BY ONLY <7>1
          <6>6. k \in 1 .. k
            BY <3>1
          <6> QED
            BY ONLY <6>3, <6>5, <6>6
        <5> QED
          BY <5>1, <5>2
      <4> QED
        BY <4>4, <4>5
    <3> QED
      BY <3>2, <3>3
  <2>7. Odd = {}
    <3> HIDE DEF Placed, Full
    <3> SUFFICES ASSUME Odd # {} PROVE FALSE
      OBVIOUS
    <3>1. PICK k \in Odd : \A j \in Odd : k <= j
      <4>1. Odd \subseteq Nat
        BY <2>2
      <4> HIDE DEF Odd
      <4> QED
        BY <4>1, LeastNat
    <3>2. k \in 1 .. N /\ ~(Placed(k) /\ Full(k))
      BY <3>1
    <3>3. k # 1 => k - 1 \in 1 .. N /\ ~(k <= k - 1)
      BY <2>2, <3>2
    <3>4. k # 1 => Placed(k - 1) /\ Full(k - 1)
      BY <3>1, <3>3
    <3> QED
      BY <2>6, <3>2, <3>4
  <2>8. Placed(N) /\ Full(N)
    <3> HIDE DEF Placed, Full
    <3>1. N \in 1 .. N /\ N \notin Odd
      BY <2>2, <2>7
    <3> QED
      BY <3>1
  <2>9. FlattenSeq(s) = f[N] /\ f[N] \in Seq(T) /\ Len(f[N]) = o[N + 1]
    <3>1. N \in 1 .. N
      BY <2>2
    <3>2. f[N] \in Seq(T) /\ o[N + 1] = Len(f[N])
      BY <2>2, <2>3, <3>1
    <3>3. FlattenSeq(s) = f[N]
      BY <2>1 DEF N
    <3> QED
      BY <3>2, <3>3
  <2>10. \A n \in 1 .. N : o[n + 1] = o[n] + Len(s[n])
    BY <2>3
  <2> HIDE DEF Odd
  <2>11. PICK F : F = FlattenSeq(s)
    OBVIOUS
  <2>12. /\ F \in Seq(T) /\ Len(F) = o[N + 1]
         /\ \A n \in 1 .. N, m \in Nat \ {0} : m <= Len(s[n]) => F[o[n] + m] = s[n][m]
         /\ \A i \in 1 .. Len(F) : \E n \in 1 .. N, m \in Nat \ {0} : m <= Len(s[n]) /\ i = o[n] + m
    <3>1. F = f[N]
      BY ONLY <2>9, <2>11
    <3>2. F \in Seq(T) /\ Len(F) = o[N + 1]
      BY ONLY <2>9, <3>1
    <3>3. \A n \in 1 .. N, m \in Nat \ {0} : m <= Len(s[n]) => F[o[n] + m] = s[n][m]
      BY ONLY <2>8, <3>1
    <3>4. \A i \in 1 .. Len(F) : \E n \in 1 .. N, m \in Nat \ {0} : m <= Len(s[n]) /\ i = o[n] + m
      BY ONLY <2>8, <3>1
    <3> QED BY ONLY <3>2, <3>3, <3>4
  <2> HIDE DEF Placed, Full
  <2>13. o \in [1 .. N + 1 -> Nat] /\ o[1] = 0 /\ \A n, k \in 1 .. N + 1 : n <= k => o[n] <= o[k]
    BY <2>4, <2>5
  <2> HIDE DEF o
  <2>14. Offsets(o, s, F)
    BY ONLY <2>10, <2>12, <2>13 DEF Offsets, N
  <2> QED
    BY ONLY <2>11, <2>12, <2>14
<1> QED
  BY <1>1, <1>2

-----------------------------------------------------------------------------
(* Texts: concatenation, parts and lines.                                  *)

\* The part of s that holds t.
LEMMA PartIs ==
    ASSUME NEW S, NEW s \in Seq(S), NEW t \in Seq(S), NEW a \in Nat,
           \A i \in 1 .. Len(t) : s[a + i] = t[i]
    PROVE  SubSeq(s, a + 1, a + Len(t)) = t
<1>1. PICK n \in Nat : n = Len(t) /\ t = [i \in 1 .. n |-> t[i]]
  OBVIOUS
<1>2. SubSeq(s, a + 1, a + n) = [i \in 1 .. a + n - (a + 1) + 1 |-> s[(a + 1) + i - 1]]
  OBVIOUS
<1>3. a + n - (a + 1) + 1 = n
  OBVIOUS
<1>4. \A i \in 1 .. n : s[(a + 1) + i - 1] = t[i]
  <2> SUFFICES ASSUME NEW i \in 1 .. n PROVE s[(a + 1) + i - 1] = t[i]
    OBVIOUS
  <2>1. (a + 1) + i - 1 = a + i
    OBVIOUS
  <2> QED
    BY <1>1, <2>1
<1>5. SubSeq(s, a + 1, a + n) = [i \in 1 .. n |-> s[(a + 1) + i - 1]]
  BY <1>2, <1>3
<1>6. [i \in 1 .. n |-> s[(a + 1) + i - 1]] = [i \in 1 .. n |-> t[i]]
  BY <1>4
<1> QED
  BY <1>1, <1>5, <1>6

\* The elements of a part.
LEMMA SubSeqIs ==
    ASSUME NEW S, NEW s \in Seq(S), NEW a \in Nat, NEW n \in Nat, a + n <= Len(s)
    PROVE  /\ SubSeq(s, a + 1, a + n) \in Seq(S) /\ Len(SubSeq(s, a + 1, a + n)) = n
           /\ \A i \in 1 .. n : SubSeq(s, a + 1, a + n)[i] = s[a + i]
<1> DEFINE f == [i \in 1 .. n |-> s[a + i]]
<1>1. \A i \in 1 .. n : s[a + i] \in S
  OBVIOUS
<1>2. f \in Seq(S) /\ Len(f) = n /\ \A i \in 1 .. n : f[i] = s[a + i]
  BY <1>1
<1> HIDE DEF f
<1>3. SubSeq(s, a + 1, a + n) = f
  <2>1. f \in Seq(S) /\ \A i \in 1 .. Len(f) : s[a + i] = f[i]
    BY ONLY <1>2
  <2>2. SubSeq(s, a + 1, a + Len(f)) = f
    BY ONLY <2>1, PartIs, s \in Seq(S), a \in Nat
  <2> QED
    BY ONLY <1>2, <2>2
<1> QED
  BY <1>2, <1>3

\* Free in terms of the positions.
LEMMA FreeIs ==
    ASSUME NEW t \in Text, NEW marks
    PROVE  Free(t, marks) <=> \A k \in 1 .. Len(t) : t[k] \notin marks
BY DEF Free, ToSet, Text

\* Where in terms of the positions.
LEMMA WhereIs ==
    ASSUME NEW t \in Text, NEW mark
    PROVE  /\ Where(t, mark) = {k \in 1 .. Len(t) : t[k] = mark}
           /\ Where(t, mark) \subseteq 0 .. Len(t) /\ Len(t) \in Nat
BY DEF Where, Text

\* The lines of a text lie between its line breaks.
LEMMA LinesAre ==
    ASSUME NEW t \in Text
    PROVE  \E b \in Seq(Nat) :
              /\ Len(b) >= 2 /\ b[1] = 0 /\ b[Len(b)] = Len(t) + 1
              /\ \A i, j \in 1 .. Len(b) : i < j => b[i] < b[j]
              /\ \A i \in 2 .. Len(b) - 1 : b[i] \in 1 .. Len(t) /\ t[b[i]] = "NL"
              /\ Lines(t) \in Seq(Text) /\ Len(Lines(t)) = Len(b) - 1
              /\ \A n \in 1 .. Len(b) - 1 :
                    /\ Lines(t)[n] = SubSeq(t, b[n] + 1, b[n + 1] - 1)
                    /\ Len(Lines(t)[n]) = b[n + 1] - b[n] - 1
                    /\ \A m \in 1 .. Len(Lines(t)[n]) :
                          Lines(t)[n][m] = t[b[n] + m] /\ t[b[n] + m] # "NL"
<1> DEFINE S == {0, Len(t) + 1} \cup Where(t, "NL")
           b == InOrder(S)
<1>1. Len(t) \in Nat /\ S \subseteq 0 .. Len(t) + 1 /\ 0 \in S /\ Len(t) + 1 \in S
  BY WhereIs
<1>2. \A k \in 1 .. Len(t) : k \in S <=> t[k] = "NL"
  BY <1>1, WhereIs
<1> HIDE DEF S
<1>3. IsFiniteSet(S) /\ S \in SUBSET Nat
  <2>1. S \in SUBSET Nat /\ \A k \in S : k <= Len(t) + 1
    BY <1>1
  <2> QED
    BY <1>1, <2>1, FS_BoundedSetOfNaturals
<1>4. /\ b \in Seq(S)
      /\ \A i, j \in 1 .. Len(b) : i < j => b[i] < b[j]
      /\ \A k \in S : \E i \in 1 .. Len(b) : b[i] = k
  BY <1>3, InOrderIs
<1>5. Lines(t) = [n \in 1 .. Len(b) - 1 |-> SubSeq(t, b[n] + 1, b[n + 1] - 1)]
  BY Zenon DEF Lines, S
<1> HIDE DEF b
<1>6. b \in Seq(Nat) /\ Len(b) \in Nat /\ \A i \in 1 .. Len(b) : b[i] \in S /\ b[i] \in 0 .. Len(t) + 1
  <2>1. Len(b) \in Nat /\ \A i \in 1 .. Len(b) : b[i] \in S
    BY <1>4
  <2>2. b \in Seq(Nat)
    <3>1. \A n \in 1 .. Len(b) : b[n] \in Nat
      BY <1>3, <2>1
    <3> QED
      BY <1>4, <3>1
  <2> QED
    BY <1>1, <2>1, <2>2
<1>7. PICK i \in 1 .. Len(b) : b[i] = 0
  BY <1>1, <1>4
<1>8. PICK j \in 1 .. Len(b) : b[j] = Len(t) + 1
  BY <1>1, <1>4
<1>9. b[1] = 0
  <2>1. 1 \in 1 .. Len(b) /\ (i # 1 => 1 < i)
    BY <1>6
  <2>2. i # 1 => b[1] < 0
    BY <1>4, <1>7, <2>1
  <2> QED
    BY <1>6, <1>7, <2>1, <2>2
<1>10. b[Len(b)] = Len(t) + 1
  <2>1. Len(b) \in 1 .. Len(b) /\ (j # Len(b) => j < Len(b))
    BY <1>6
  <2>2. j # Len(b) => Len(t) + 1 < b[Len(b)]
    BY <1>4, <1>8, <2>1
  <2> QED
    BY <1>1, <1>6, <1>8, <2>1, <2>2
<1>11. Len(b) >= 2
  <2>1. Len(b) # 1 /\ Len(b) # 0
    BY <1>1, <1>7, <1>9, <1>10
  <2> QED
    <3>1. PICK n \in Nat : n = Len(b)
      BY <1>6
    <3>2. n # 0 /\ n # 1
      BY <2>1, <3>1
    <3>3. n >= 2
      BY <3>2
    <3> QED
      BY <3>1, <3>3
<1>12. ASSUME NEW n \in 2 .. Len(b) - 1 PROVE b[n] \in 1 .. Len(t) /\ t[b[n]] = "NL"
  <2>1. n \in 1 .. Len(b) /\ 1 \in 1 .. Len(b) /\ Len(b) \in 1 .. Len(b) /\ 1 < n /\ n < Len(b)
    BY <1>6
  <2>2. b[1] < b[n] /\ b[n] < b[Len(b)]
    BY <1>4, <2>1
  <2>3. PICK x \in Nat, L \in Nat : x = b[n] /\ L = Len(t) /\ x \in S
    <3>1. PICK L \in Nat : L = Len(t)
      BY ONLY <1>1
    <3>2. b[n] \in S /\ b[n] \in 0 .. L + 1
      BY ONLY <1>6, <2>1, <3>1
    <3>3. b[n] \in Nat
      BY ONLY <3>2, L \in Nat
    <3> QED BY ONLY <3>1, <3>2, <3>3
  <2>4. 0 < x /\ x < L + 1
    BY ONLY <1>9, <1>10, <2>2, <2>3
  <2>5. x \in 1 .. Len(t)
    BY ONLY <2>3, <2>4, x \in Nat, L \in Nat
  <2> QED
    BY ONLY <1>2, <2>3, <2>5
<1>13. ASSUME NEW n \in 1 .. Len(b) - 1
       PROVE  /\ SubSeq(t, b[n] + 1, b[n + 1] - 1) \in Text
              /\ Len(SubSeq(t, b[n] + 1, b[n + 1] - 1)) = b[n + 1] - b[n] - 1
              /\ \A m \in 1 .. b[n + 1] - b[n] - 1 :
                    /\ SubSeq(t, b[n] + 1, b[n + 1] - 1)[m] = t[b[n] + m]
                    /\ t[b[n] + m] # "NL"
  <2>1. n \in 1 .. Len(b) /\ n + 1 \in 1 .. Len(b) /\ n < n + 1
    BY <1>6
  <2>2. PICK x \in 0 .. Len(t) + 1, y \in 0 .. Len(t) + 1 : x = b[n] /\ y = b[n + 1]
    BY <1>6, <2>1
  <2>3. x < y
    BY <1>4, <2>1, <2>2
  <2>4. PICK k \in Nat : k = y - x - 1 /\ x + k = y - 1 /\ x + k <= Len(t)
    <3>1. y - x - 1 \in Nat /\ x + (y - x - 1) = y - 1 /\ y - 1 <= Len(t)
      BY <1>1, <2>3
    <3> QED
      BY <3>1
  <2>5. /\ SubSeq(t, x + 1, x + k) \in Seq(Words) /\ Len(SubSeq(t, x + 1, x + k)) = k
        /\ \A m \in 1 .. k : SubSeq(t, x + 1, x + k)[m] = t[x + m]
    BY <2>4, SubSeqIs DEF Text
  <2>6. ASSUME NEW m \in 1 .. k PROVE t[x + m] # "NL"
    <3>1. x + m \in 1 .. Len(t) /\ x < x + m /\ x + m < y
      BY <1>1, <2>3, <2>4
    <3>2. ASSUME t[x + m] = "NL" PROVE FALSE
      <4>1. PICK l \in 1 .. Len(b) : b[l] = x + m
        BY <1>2, <1>4, <3>1, <3>2
      <4>2. l # n /\ l # n + 1 /\ (l < n => b[l] < x) /\ (n + 1 < l => y < b[l])
        <5>1. (l < n => b[l] < b[n]) /\ (n + 1 < l => b[n + 1] < b[l])
          BY <1>4, <2>1
        <5>2. b[l] # x /\ b[l] # y
          BY <3>1, <4>1
        <5> QED
          BY <2>2, <5>1, <5>2
      <4>3. ~(l < n) /\ ~(n + 1 < l)
        BY <3>1, <4>1, <4>2
      <4> QED
        BY <2>1, <4>2, <4>3
    <3> QED
      BY <3>2
  <2>7. SubSeq(t, x + 1, y - 1) = SubSeq(t, x + 1, x + k)
    BY <2>4
  <2> QED
    BY <2>2, <2>4, <2>5, <2>6, <2>7 DEF Text
<1>14. Lines(t) \in Seq(Text) /\ Len(Lines(t)) = Len(b) - 1
  <2> DEFINE f == [n \in 1 .. Len(b) - 1 |-> SubSeq(t, b[n] + 1, b[n + 1] - 1)]
  <2>1. \A n \in 1 .. Len(b) - 1 : f[n] \in Text
    BY <1>13
  <2>2. DOMAIN f = 1 .. Len(b) - 1 /\ f = [n \in 1 .. Len(b) - 1 |-> f[n]]
    OBVIOUS
  <2> HIDE DEF f
  <2>3. Len(b) - 1 \in Nat
    BY <1>6, <1>11
  <2>4. f \in Seq(Text) /\ Len(f) = Len(b) - 1
    BY <2>1, <2>2, <2>3
  <2> QED
    BY <1>5, <2>4 DEF f
<1>15. \A n \in 1 .. Len(b) - 1 : Lines(t)[n] = SubSeq(t, b[n] + 1, b[n + 1] - 1)
  BY <1>5
<1>16. ASSUME NEW n \in 1 .. Len(b) - 1
       PROVE  /\ Len(Lines(t)[n]) = b[n + 1] - b[n] - 1
              /\ \A m \in 1 .. Len(Lines(t)[n]) :
                    Lines(t)[n][m] = t[b[n] + m] /\ t[b[n] + m] # "NL"
  <2>1. PICK line : line = Lines(t)[n] /\ line = SubSeq(t, b[n] + 1, b[n + 1] - 1)
    BY <1>15
  <2>2. /\ Len(line) = b[n + 1] - b[n] - 1
        /\ \A m \in 1 .. b[n + 1] - b[n] - 1 : line[m] = t[b[n] + m] /\ t[b[n] + m] # "NL"
    BY <1>13, <2>1
  <2>3. \A m \in 1 .. Len(line) : line[m] = t[b[n] + m] /\ t[b[n] + m] # "NL"
    BY <2>2
  <2> QED
    BY <2>1, <2>2, <2>3
<1>17. \A k \in 2 .. Len(b) - 1 : b[k] \in 1 .. Len(t) /\ t[b[k]] = "NL"
  BY <1>12
<1>18. b \in Seq(Nat)
  BY <1>6
<1> QED
  BY <1>4, <1>9, <1>10, <1>11, <1>14, <1>15, <1>16, <1>17, <1>18

\* A text without a line break is one line (strings.Split).
LEMMA WholeLine ==
    ASSUME NEW t \in Text, \A k \in 1 .. Len(t) : t[k] # "NL"
    PROVE  Lines(t) = <<t>>
<1>1. PICK b \in Seq(Nat) :
        /\ Len(b) >= 2 /\ b[1] = 0 /\ b[Len(b)] = Len(t) + 1
        /\ \A i \in 2 .. Len(b) - 1 : b[i] \in 1 .. Len(t) /\ t[b[i]] = "NL"
        /\ Lines(t) \in Seq(Text) /\ Len(Lines(t)) = Len(b) - 1
        /\ \A n \in 1 .. Len(b) - 1 : Lines(t)[n] = SubSeq(t, b[n] + 1, b[n + 1] - 1)
  BY LinesAre
<1>2. Len(b) = 2
  <2>1. ASSUME Len(b) # 2 PROVE FALSE
    <3>1. 2 \in 2 .. Len(b) - 1
      BY <1>1, <2>1
    <3> QED BY <1>1, <3>1
  <2> QED BY <2>1
<1>3. t \in Seq(Words) /\ Len(t) \in Nat
  BY DEF Text
<1>4. Lines(t)[1] = SubSeq(t, 1, Len(t))
  BY <1>1, <1>2, <1>3
<1>5. Lines(t)[1] = t
  BY <1>3, <1>4
<1> QED BY <1>1, <1>2, <1>5

\* The marks are words.
LEMMA Marks == {"NL", " ", "- [", "](", ")", " -- ", "## ", "##D", " | ", "# ", ""} \subseteq Words
BY ManagedFilesAssumption

\* The elements of two sequences in a row.
LEMMA CatAt ==
    ASSUME NEW D, NEW b \in Seq(D), NEW p \in Seq(D), NEW N \in Nat, NEW P \in Nat,
           Len(b) = N, Len(p) = P, NEW c, c = b \o p
    PROVE  /\ c \in Seq(D) /\ Len(c) = N + P
           /\ \A i \in 1 .. N : c[i] = b[i]
           /\ \A i \in 1 .. P : c[N + i] = p[i]
<1>1. Len(c) = N + P /\ c \in Seq(D)
  OBVIOUS
<1>2. \A i \in 1 .. N : c[i] = b[i]
  OBVIOUS
<1>3. \A i \in 1 .. P : c[N + i] = p[i]
  OBVIOUS
<1> QED BY <1>1, <1>2, <1>3

\* The line L of an entry e whose title, path and summary have T, P and S words.
LaidOut(L, e, T, P, S) ==
    /\ L[1] = "- ["
    /\ \A i \in 1 .. T : L[1 + i] = e.title[i]
    /\ L[T + 2] = "]("
    /\ \A i \in 1 .. P : L[T + 2 + i] = e.path[i]
    /\ L[T + P + 3] = ")"
    /\ S = 0 => e.summary = <<>> /\ Len(L) = T + P + 3
    /\ S # 0 => /\ Len(L) = T + P + 4 + S
                /\ L[T + P + 4] = " -- "
                /\ \A i \in 1 .. S : L[T + P + 4 + i] = e.summary[i]

\* Where the title, the path and the summary are in the line of an entry.
LEMMA EntryLayout ==
    ASSUME NEW e \in Entry, NEW T \in Nat, NEW P \in Nat, NEW S \in Nat,
           T = Len(e.title), P = Len(e.path), S = Len(e.summary)
    PROVE  EntryText(e) \in Text /\ LaidOut(EntryText(e), e, T, P, S)
<1>1. PICK t \in Seq(Words), p \in Seq(Words), s \in Seq(Words) :
        t = e.title /\ p = e.path /\ s = e.summary
  BY DEF Entry, Text
<1>2. T = Len(t) /\ P = Len(p) /\ S = Len(s)
  BY <1>1
<1>3. EntryText(e) = IF s = <<>> THEN ((((<<"- [">> \o t) \o <<"](">>) \o p) \o <<")">>) \o <<>>
                     ELSE ((((<<"- [">> \o t) \o <<"](">>) \o p) \o <<")">>) \o (<<" -- ">> \o s)
  BY <1>1 DEF EntryText
<1>4. S = 0 => s = <<>>
  <2>1. ASSUME S = 0 PROVE s = <<>>
    <3>1. Len(s) = 0
      BY ONLY <1>2, <2>1
    <3> QED BY ONLY <3>1, s \in Seq(Words)
  <2> QED BY <2>1
<1>5. PICK a1, a2, a3, a4, a5, a6 :
        /\ a1 = <<"- [">> \o t /\ a2 = a1 \o <<"](">> /\ a3 = a2 \o p /\ a4 = a3 \o <<")">>
        /\ a5 = <<" -- ">> \o s /\ a6 = a4 \o a5
  OBVIOUS
<1>6. PICK w1 \in Words, w2 \in Words, w3 \in Words, w4 \in Words :
        w1 = "- [" /\ w2 = "](" /\ w3 = ")" /\ w4 = " -- "
  BY Marks
<1>7. /\ a4[1] = w1 /\ \A i \in 1 .. T : a4[1 + i] = t[i]
      /\ a4[T + 2] = w2 /\ \A i \in 1 .. P : a4[T + 2 + i] = p[i]
      /\ a4[T + P + 3] = w3 /\ Len(a4) = T + P + 3 /\ a4 \in Seq(Words)
      /\ a6[1] = w1 /\ \A i \in 1 .. T : a6[1 + i] = t[i]
      /\ a6[T + 2] = w2 /\ \A i \in 1 .. P : a6[T + 2 + i] = p[i]
      /\ a6[T + P + 3] = w3 /\ Len(a6) = T + P + 4 + S
      /\ a6[T + P + 4] = w4 /\ \A i \in 1 .. S : a6[T + P + 4 + i] = s[i]
      /\ a6 \in Seq(Words)
  <2>f0. a1 = <<w1>> \o t /\ a2 = a1 \o <<w2>> /\ a3 = a2 \o p /\ a4 = a3 \o <<w3>>
        /\ a5 = <<w4>> \o s /\ a6 = a4 \o a5
    BY ONLY <1>5, <1>6
  <2>f2. Len(t) = T /\ Len(p) = P /\ Len(s) = S
    BY ONLY <1>2
  <2>fp. Len(p) = P
    BY ONLY <2>f2
  <2>f3. a1 = <<w1>> \o t
    BY <2>f0
  <2>f4. a2 = a1 \o <<w2>>
    BY <2>f0
  <2>f5. a3 = a2 \o p
    BY <2>f0
  <2>f6. a4 = a3 \o <<w3>>
    BY <2>f0
  <2>f7. a5 = <<w4>> \o s
    BY <2>f0
  <2>f8. a6 = a4 \o a5
    BY <2>f0
  <2>1. a1 \in Seq(Words) /\ Len(a1) = T + 1
    BY ONLY w1 \in Words, t \in Seq(Words), <2>f2, T \in Nat, <2>f3
  <2>2. a1[1] = w1
    BY ONLY w1 \in Words, t \in Seq(Words), <2>f2, T \in Nat, <2>f3
  <2>3. \A i \in 1 .. T : a1[1 + i] = t[i]
    BY ONLY w1 \in Words, t \in Seq(Words), <2>f2, T \in Nat, <2>f3
  <2>s1. PICK h \in Nat : h = T + 1
    OBVIOUS
  <2>a1. a1 \in Seq(Words) /\ Len(a1) = h
    BY ONLY <2>1, <2>s1
  <2>e1. a2 \in Seq(Words) /\ Len(a2) = h + 1
    BY ONLY w2 \in Words, <2>a1, h \in Nat, <2>f4
  <2>4. a2 \in Seq(Words) /\ Len(a2) = T + 2
    BY ONLY <2>e1, <2>s1, T \in Nat
  <2>5. a2[T + 2] = w2
    <3>1. a2[h + 1] = w2
      BY ONLY w2 \in Words, <2>a1, h \in Nat, <2>f4
    <3> QED BY ONLY <3>1, <2>s1, T \in Nat
  <2>6. \A i \in 1 .. T + 1 : a2[i] = a1[i]
    BY ONLY w2 \in Words, <2>1, T \in Nat, <2>f4
  <2>7. PICK n \in Nat : n = T + 2
    OBVIOUS
  <2>a2. a2 \in Seq(Words) /\ Len(a2) = n
    BY <2>4, <2>7
  <2>s2. a2 \in Seq(Words)
    BY <2>4
  <2>8. a3 \in Seq(Words) /\ Len(a3) = n + P
    <3>1. a3 \in Seq(Words)
      BY ONLY p \in Seq(Words), <2>a2, <2>f5
    <3>2. Len(a3) = Len(a2) + Len(p)
      BY ONLY p \in Seq(Words), <2>s2, <2>f5
    <3> QED BY ONLY <3>1, <3>2, <2>a2, <2>f2
  <2>9. \A i \in 1 .. n : a3[i] = a2[i]
    BY ONLY CatAt, p \in Seq(Words), <2>a2, n \in Nat, P \in Nat, <2>fp, <2>f5
  <2>10. \A i \in 1 .. P : a3[n + i] = p[i]
    BY ONLY CatAt, p \in Seq(Words), <2>a2, n \in Nat, P \in Nat, <2>fp, <2>f5
  <2>11. PICK m \in Nat : m = n + P
    BY ONLY n \in Nat, P \in Nat
  <2>a3. a3 \in Seq(Words) /\ Len(a3) = m
    BY <2>8, <2>11
  <2>12. a4 \in Seq(Words) /\ Len(a4) = m + 1
    BY ONLY w3 \in Words, <2>a3, m \in Nat, <2>f6
  <2>13. a4[m + 1] = w3
    BY ONLY w3 \in Words, <2>a3, m \in Nat, <2>f6
  <2>14. \A i \in 1 .. m : a4[i] = a3[i]
    BY ONLY w3 \in Words, <2>a3, m \in Nat, <2>f6
  <2>15. a5 \in Seq(Words) /\ Len(a5) = S + 1
    BY ONLY w4 \in Words, s \in Seq(Words), <2>f2, S \in Nat, <2>f7
  <2>16. a5[1] = w4
    BY ONLY w4 \in Words, s \in Seq(Words), <2>f2, S \in Nat, <2>f7
  <2>17. \A i \in 1 .. S : a5[1 + i] = s[i]
    BY ONLY w4 \in Words, s \in Seq(Words), <2>f2, S \in Nat, <2>f7
  <2>18. PICK k \in Nat : k = m + 1
    BY <2>11
  <2>19. PICK j \in Nat : j = S + 1
    OBVIOUS
  <2>a4. a4 \in Seq(Words) /\ Len(a4) = k /\ a5 \in Seq(Words) /\ Len(a5) = j
    BY <2>12, <2>15, <2>18, <2>19
  <2>s4. a4 \in Seq(Words)
    BY <2>12
  <2>s5. a5 \in Seq(Words)
    BY <2>15
  <2>20. a6 \in Seq(Words) /\ Len(a6) = k + j
    <3>1. a6 \in Seq(Words)
      BY ONLY <2>a4, <2>f8
    <3>2. Len(a6) = k + j
      <4>1. Len(a6) = Len(a4) + Len(a5)
        BY ONLY <2>s4, <2>s5, <2>f8
      <4> QED BY ONLY <4>1, <2>a4
    <3> QED BY ONLY <3>1, <3>2
  <2>21. \A i \in 1 .. k : a6[i] = a4[i]
    <3>1. \A i \in 1 .. Len(a4) : (a4 \o a5)[i] = a4[i]
      BY ONLY <2>s4, <2>s5
    <3>2. Len(a4) = k /\ Len(a5) = j
      BY ONLY <2>a4
    <3> QED BY ONLY <2>f8, <3>1, <3>2
  <2>22. \A i \in 1 .. j : a6[k + i] = a5[i]
    <3>1. \A i \in 1 .. Len(a5) : (a4 \o a5)[Len(a4) + i] = a5[i]
      BY ONLY <2>s4, <2>s5
    <3>2. Len(a4) = k /\ Len(a5) = j
      BY ONLY <2>a4
    <3> QED BY ONLY <2>f8, <3>1, <3>2
  <2>n. n = T + 2 /\ m = T + 2 + P /\ k = T + P + 3 /\ j = S + 1
    BY ONLY <2>7, <2>11, <2>18, <2>19, T \in Nat, P \in Nat, S \in Nat
  <2>23. a4[1] = w1 /\ \A i \in 1 .. T : a4[1 + i] = t[i]
    <3>1. \A i \in 1 .. T + 1 : a4[i] = a1[i]
      BY ONLY <2>6, <2>9, <2>14, <2>n, T \in Nat, P \in Nat
    <3> QED BY ONLY <2>2, <2>3, <3>1, T \in Nat
  <2>24. a4[T + 2] = w2 /\ \A i \in 1 .. P : a4[T + 2 + i] = p[i]
    <3>1. a4[T + 2] = a2[T + 2]
      BY ONLY <2>9, <2>14, <2>n, T \in Nat, P \in Nat
    <3>2. \A i \in 1 .. P : a4[n + i] = p[i]
      <4> TAKE i \in 1 .. P
      <4>1. n = T + 2 /\ m = T + 2 + P
        BY ONLY <2>n
      <4>2. n + i \in 1 .. m
        BY ONLY <4>1, T \in Nat, P \in Nat, i \in 1 .. P
      <4>3. a4[n + i] = a3[n + i]
        BY ONLY <2>14, <4>2
      <4> QED BY ONLY <2>10, <4>3, i \in 1 .. P
    <3> QED BY ONLY <2>5, <2>n, <3>1, <3>2
  <2>25. a4[T + P + 3] = w3 /\ Len(a4) = T + P + 3
    BY ONLY <2>12, <2>13, <2>18, <2>n
  <2>26. \A i \in 1 .. T + P + 3 : a6[i] = a4[i]
    BY ONLY <2>21, <2>n
  <2>27. /\ a6[1] = w1 /\ \A i \in 1 .. T : a6[1 + i] = t[i]
         /\ a6[T + 2] = w2 /\ \A i \in 1 .. P : a6[T + 2 + i] = p[i]
         /\ a6[T + P + 3] = w3
    <3>1. a6[1] = w1
      BY ONLY <2>23, <2>26, T \in Nat, P \in Nat
    <3>2. \A i \in 1 .. T : a6[1 + i] = t[i]
      BY ONLY <2>23, <2>26, T \in Nat, P \in Nat
    <3>3. a6[T + 2] = w2
      <4>1. PICK r \in 1 .. T + P + 3 : r = T + 2
        BY ONLY T \in Nat, P \in Nat
      <4> QED BY ONLY <2>24, <2>26, <4>1
    <3>4. \A i \in 1 .. P : a6[T + 2 + i] = p[i]
      BY ONLY <2>24, <2>26, T \in Nat, P \in Nat
    <3>5. a6[T + P + 3] = w3
      BY ONLY <2>25, <2>26, T \in Nat, P \in Nat
    <3> QED BY ONLY <3>1, <3>2, <3>3, <3>4, <3>5
  <2>28. a6[T + P + 4] = w4 /\ \A i \in 1 .. S : a6[T + P + 4 + i] = s[i]
    <3>1. a6[k + 1] = w4 /\ \A i \in 1 .. S : a6[k + (1 + i)] = s[i]
      BY ONLY <2>16, <2>17, <2>22, <2>n, S \in Nat
    <3>2. k + 1 = T + P + 4 /\ \A i \in 1 .. S : k + (1 + i) = T + P + 4 + i
      BY ONLY <2>n, T \in Nat, P \in Nat, S \in Nat
    <3> QED BY ONLY <3>1, <3>2
  <2>29. Len(a6) = T + P + 4 + S
    BY ONLY <2>20, <2>n, T \in Nat, P \in Nat, S \in Nat
  <2> QED BY ONLY <2>12, <2>20, <2>23, <2>24, <2>25, <2>27, <2>28, <2>29
<1>8. CASE S = 0
  <2>1. EntryText(e) = a4 \o <<>>
    BY ONLY <1>3, <1>4, <1>5, <1>8
  <2>2. EntryText(e) = a4
    BY ONLY <2>1, <1>7
  <2> QED BY ONLY <1>1, <1>4, <1>6, <1>7, <1>8, <2>2, T \in Nat, P \in Nat DEF Text, LaidOut
<1>9. CASE S # 0
  <2>1. s # <<>>
    BY ONLY <1>2, <1>9, Len(<<>>) = 0
  <2>2. EntryText(e) = a6
    BY ONLY <1>3, <1>5, <2>1
  <2> QED BY ONLY <1>1, <1>4, <1>6, <1>7, <1>9, <2>2, T \in Nat, P \in Nat, S \in Nat DEF Text, LaidOut
<1> QED BY ONLY <1>8, <1>9

\* parseEntryLine gives back the clean entry that RenderIndex wrote.
LEMMA EntryLine ==
    ASSUME NEW e \in Entry, CleanEntry(e), NEW type
    PROVE  /\ EntryText(e) \in Text /\ Lines(EntryText(e)) = <<EntryText(e)>>
           /\ IsEntry(EntryText(e))
           /\ Says(ParseEntryLine(EntryText(e), type), e)
           /\ ParseEntryLine(EntryText(e), type).type = type
<1>1. PICK t \in Seq(Words), p \in Seq(Words), s \in Seq(Words) :
        t = e.title /\ p = e.path /\ s = e.summary
  BY DEF Entry, Text
<1>2. PICK T \in Nat, P \in Nat, S \in Nat : T = Len(t) /\ P = Len(p) /\ S = Len(s)
  OBVIOUS
<1>3. T = Len(e.title) /\ P = Len(e.path) /\ S = Len(e.summary)
  BY <1>1, <1>2
<1>4. PICK L \in Text : L = EntryText(e)
  BY <1>3, EntryLayout
<1>5. LaidOut(L, e, T, P, S)
  BY <1>3, <1>4, EntryLayout
<1>5a. L[1] = "- ["
  BY ONLY <1>5 DEF LaidOut
<1>5b. \A i \in 1 .. T : L[1 + i] = t[i]
  BY ONLY <1>1, <1>5 DEF LaidOut
<1>5c. L[T + 2] = "]("
  BY ONLY <1>5 DEF LaidOut
<1>5d. \A i \in 1 .. P : L[T + 2 + i] = p[i]
  BY ONLY <1>1, <1>5 DEF LaidOut
<1>5e. L[T + P + 3] = ")"
  BY ONLY <1>5 DEF LaidOut
<1>5f. S = 0 => s = <<>> /\ Len(L) = T + P + 3
  BY ONLY <1>1, <1>5 DEF LaidOut
<1>5g. S # 0 => Len(L) = T + P + 4 + S
  BY ONLY <1>5 DEF LaidOut
<1>5h. S # 0 => L[T + P + 4] = " -- "
  BY ONLY <1>5 DEF LaidOut
<1>5i. S # 0 => \A i \in 1 .. S : L[T + P + 4 + i] = s[i]
  BY ONLY <1>1, <1>5 DEF LaidOut
<1>6. PICK n \in Nat : n = Len(L) /\ L \in Seq(Words)
  BY DEF Text
<1>6a. S = 0 => n = T + P + 3
  BY ONLY <1>5f, <1>6
<1>6b. S # 0 => n = T + P + 4 + S
  BY ONLY <1>5g, <1>6
<1>7. /\ \A i \in 1 .. P : p[i] # "NL" /\ p[i] # "](" /\ p[i] # ")"
      /\ \A i \in 1 .. T : t[i] # "NL"
      /\ \A i \in 1 .. S : s[i] # "NL" /\ s[i] # "]("
  <2>1. t \in Text /\ p \in Text /\ s \in Text
    BY DEF Text
  <2>2. Free(p, {"NL", "](", ")"}) /\ Free(t, {"NL"}) /\ Free(s, {"NL", "]("})
    BY <1>1 DEF CleanEntry
  <2>3. \A i \in 1 .. Len(p) : p[i] \notin {"NL", "](", ")"}
    BY ONLY <2>1, <2>2, FreeIs
  <2>4. \A i \in 1 .. Len(t) : t[i] \notin {"NL"}
    BY ONLY <2>1, <2>2, FreeIs
  <2>5. \A i \in 1 .. Len(s) : s[i] \notin {"NL", "]("}
    BY ONLY <2>1, <2>2, FreeIs
  <2> QED BY ONLY <1>2, <2>3, <2>4, <2>5
\* Where each word of the line comes from.
<1>8. \A k \in 1 .. n :
        \/ k = 1
        \/ \E i \in 1 .. T : k = 1 + i
        \/ k = T + 2
        \/ \E i \in 1 .. P : k = T + 2 + i
        \/ k = T + P + 3
        \/ S # 0 /\ k = T + P + 4
        \/ S # 0 /\ \E i \in 1 .. S : k = T + P + 4 + i
  <2> TAKE k \in 1 .. n
  <2>1. k - 1 \in 1 .. T => \E i \in 1 .. T : k = 1 + i
    OBVIOUS
  <2>2. k - (T + 2) \in 1 .. P => \E i \in 1 .. P : k = T + 2 + i
    OBVIOUS
  <2>3. k - (T + P + 4) \in 1 .. S => \E i \in 1 .. S : k = T + P + 4 + i
    OBVIOUS
  <2>6. \/ k = 1 \/ k - 1 \in 1 .. T \/ k = T + 2 \/ k - (T + 2) \in 1 .. P \/ k = T + P + 3
        \/ (S # 0 /\ k = T + P + 4) \/ (S # 0 /\ k - (T + P + 4) \in 1 .. S)
    BY ONLY <1>6a, <1>6b, k \in 1 .. n, n \in Nat, T \in Nat, P \in Nat, S \in Nat
  <2> QED BY ONLY <2>1, <2>2, <2>3, <2>6
<1>9. n >= T + P + 3
  BY ONLY <1>6a, <1>6b, n \in Nat, T \in Nat, P \in Nat, S \in Nat
<1>10. \A k \in 1 .. n : L[k] # "NL"
  <2> TAKE k \in 1 .. n
  <2>1. CASE \E i \in 1 .. T : k = 1 + i
    BY ONLY <1>5b, <1>7, <2>1
  <2>2. CASE \E i \in 1 .. P : k = T + 2 + i
    BY ONLY <1>5d, <1>7, <2>2
  <2>3. CASE S # 0 /\ \E i \in 1 .. S : k = T + P + 4 + i
    BY ONLY <1>5i, <1>7, <2>3
  <2>4. CASE k = 1 \/ k = T + 2 \/ k = T + P + 3 \/ (S # 0 /\ k = T + P + 4)
    BY ONLY <1>5a, <1>5c, <1>5e, <1>5h, <2>4
  <2> QED BY ONLY <1>8, <2>1, <2>2, <2>3, <2>4, k \in 1 .. n
<1>11. Lines(L) = <<L>>
  BY ONLY <1>6, <1>10, WholeLine, L \in Text
<1>12. Where(L, "](") \subseteq 1 .. n /\ T + 2 \in Where(L, "](")
  <2>1. Where(L, "](") = {k \in 1 .. n : L[k] = "]("}
    BY <1>6, WhereIs
  <2>2. T + 2 \in 1 .. n
    BY ONLY <1>9, T \in Nat, P \in Nat, n \in Nat
  <2> QED BY ONLY <1>5c, <2>1, <2>2
<1>13. \A k \in Where(L, "](") : k <= T + 2
  <2>1. SUFFICES ASSUME NEW k \in 1 .. n, k > T + 2 PROVE L[k] # "]("
    BY <1>6, WhereIs
  <2>2. \/ \E i \in 1 .. P : k = T + 2 + i
        \/ k = T + P + 3
        \/ S # 0 /\ k = T + P + 4
        \/ S # 0 /\ \E i \in 1 .. S : k = T + P + 4 + i
    BY ONLY <1>8, <2>1, k \in 1 .. n, n \in Nat, T \in Nat, P \in Nat, S \in Nat
  <2>3. CASE \E i \in 1 .. P : k = T + 2 + i
    BY ONLY <1>5d, <1>7, <2>3
  <2>4. CASE S # 0 /\ \E i \in 1 .. S : k = T + P + 4 + i
    BY ONLY <1>5i, <1>7, <2>4
  <2>5. CASE k = T + P + 3 \/ (S # 0 /\ k = T + P + 4)
    BY ONLY <1>5e, <1>5h, <2>5
  <2> QED BY ONLY <2>2, <2>3, <2>4, <2>5
<1>14. Boundary(L) = T + 2
  <2>1. Where(L, "](") \subseteq 0 .. n /\ Where(L, "](") # {}
    BY <1>12
  <2>2. Max(Where(L, "](")) \in Where(L, "](") /\ \A m \in Where(L, "](") : Max(Where(L, "](")) >= m
    BY <2>1, MaxOfNats
  <2>3. PICK x : x = Max(Where(L, "]("))
    OBVIOUS
  <2>4. x = T + 2
    <3>1. x \in Nat /\ x <= T + 2 /\ x >= T + 2
      BY <1>12, <1>13, <2>2, <2>3
    <3> QED BY ONLY <3>1, T \in Nat
  <2> QED BY <2>3, <2>4 DEF Boundary
<1> DEFINE C == {k \in Where(L, ")") : k > T + 2}
<1>15. C \subseteq Nat /\ T + P + 3 \in C
  <2>1. Where(L, ")") = {k \in 1 .. n : L[k] = ")"}
    BY <1>6, WhereIs
  <2>2. T + P + 3 \in 1 .. n /\ T + P + 3 > T + 2
    BY ONLY <1>9, T \in Nat, P \in Nat, n \in Nat
  <2> QED BY ONLY <1>5e, <2>1, <2>2 DEF C
<1>16. \A k \in C : k >= T + P + 3
  <2>1. SUFFICES ASSUME NEW k \in 1 .. n, L[k] = ")", k > T + 2, k < T + P + 3 PROVE FALSE
    BY <1>6, WhereIs
  <2>2. \E i \in 1 .. P : k = T + 2 + i
    BY ONLY <1>8, <2>1, k \in 1 .. n, n \in Nat, T \in Nat, P \in Nat, S \in Nat
  <2> QED BY ONLY <1>5d, <1>7, <2>1, <2>2
<1> HIDE DEF C
<1>17. Min(C) = T + P + 3
  <2>1. Min(C) \in C /\ \A m \in C : Min(C) <= m
    BY <1>15, MinOfNats
  <2>2. PICK x : x = Min(C)
    OBVIOUS
  <2>3. x \in Nat /\ x <= T + P + 3 /\ x >= T + P + 3
    BY <1>15, <1>16, <2>1, <2>2
  <2> QED BY ONLY <2>2, <2>3, T \in Nat, P \in Nat
<1>18. IsEntry(L)
  <2>1. Begins(L, "- [")
    <3>1. L # <<>>
      BY <1>6, <1>9, Len(<<>>) = 0
    <3> QED BY <1>5a, <3>1 DEF Begins
  <2>2. T + P + 3 \in Where(L, ")") /\ T + P + 3 > T + 2
    BY <1>15 DEF C
  <2> QED BY <1>12, <1>14, <2>1, <2>2 DEF IsEntry
<1> DEFINE D == {k \in Where(L, " -- ") : k > T + P + 3}
<1>19. /\ ParseEntryLine(L, type).path = SubSeq(L, T + 2 + 1, T + P + 3 - 1)
       /\ ParseEntryLine(L, type).title = SubSeq(L, 2, T + 2 - 1)
       /\ ParseEntryLine(L, type).summary = IF D = {} THEN <<>> ELSE SubSeq(L, Min(D) + 1, Len(L))
       /\ ParseEntryLine(L, type).type = type
  <2> HIDE DEF D
  <2> DEFINE b == Boundary(L)
             c == Min({k \in Where(L, ")") : k > b})
             after == {k \in Where(L, " -- ") : k > c}
             r == ParseEntryLine(L, type)
  <2>1. r = [path |-> SubSeq(L, b + 1, c - 1), title |-> SubSeq(L, 2, b - 1),
             summary |-> IF after = {} THEN <<>> ELSE SubSeq(L, Min(after) + 1, Len(L)),
             type |-> type]
    BY Zenon DEF ParseEntryLine
  <2>2. b = T + 2
    BY <1>14
  <2>3. {k \in Where(L, ")") : k > b} = C
    BY <2>2 DEF C
  <2>4. c = T + P + 3
    BY <2>3, <1>17
  <2>5. after = D
    BY <2>4 DEF D
  <2> HIDE DEF b, c, after, r
  <2>6. /\ r.path = SubSeq(L, b + 1, c - 1) /\ r.title = SubSeq(L, 2, b - 1)
        /\ r.summary = (IF after = {} THEN <<>> ELSE SubSeq(L, Min(after) + 1, Len(L)))
        /\ r.type = type
    BY ONLY <2>1
  <2> QED BY ONLY <2>2, <2>4, <2>5, <2>6 DEF r
<1>20. SubSeq(L, T + 2 + 1, T + P + 3 - 1) = p
  <2>1. PICK a \in Nat : a = T + 2
    OBVIOUS
  <2>2. \A i \in 1 .. Len(p) : L[a + i] = p[i]
    BY <1>2, <1>5d, <2>1
  <2>3. SubSeq(L, a + 1, a + Len(p)) = p
    BY ONLY <1>6, <2>2, PartIs, a \in Nat, p \in Seq(Words)
  <2>4. T + 2 + 1 = a + 1 /\ T + P + 3 - 1 = a + Len(p)
    BY ONLY <1>2, <2>1, T \in Nat, P \in Nat
  <2> QED BY ONLY <2>3, <2>4
<1>21. SubSeq(L, 2, T + 2 - 1) = t
  <2>1. \A i \in 1 .. Len(t) : L[1 + i] = t[i]
    BY <1>2, <1>5b
  <2>2. SubSeq(L, 1 + 1, 1 + Len(t)) = t
    BY ONLY <1>6, <2>1, PartIs, 1 \in Nat, t \in Seq(Words)
  <2>3. 1 + 1 = 2 /\ 1 + Len(t) = T + 2 - 1
    BY ONLY <1>2, T \in Nat
  <2> QED BY ONLY <2>2, <2>3
<1>22. (IF D = {} THEN <<>> ELSE SubSeq(L, Min(D) + 1, Len(L))) = s
  <2>1. Where(L, " -- ") = {k \in 1 .. n : L[k] = " -- "}
    BY <1>6, WhereIs
  <2>d. \A k : k \in D <=> k \in 1 .. n /\ L[k] = " -- " /\ k > T + P + 3
    BY ONLY <2>1 DEF D
  <2> HIDE DEF D
  <2>2. CASE S = 0
    <3>1. s = <<>> /\ n = T + P + 3
      BY ONLY <1>5f, <1>6a, <2>2
    <3>2. D = {}
      <4>1. SUFFICES ASSUME NEW k \in D PROVE FALSE
        OBVIOUS
      <4>2. k \in 1 .. n /\ k > T + P + 3
        BY ONLY <2>d, k \in D
      <4>3. n = T + P + 3
        BY ONLY <3>1
      <4> QED BY ONLY <4>2, <4>3, T \in Nat, P \in Nat, n \in Nat
    <3> QED BY ONLY <3>1, <3>2
  <2>3. CASE S # 0
    <3>1. n = T + P + 4 + S /\ L[T + P + 4] = " -- " /\ \A i \in 1 .. S : L[T + P + 4 + i] = s[i]
      BY ONLY <1>5h, <1>5i, <1>6b, <2>3
    <3>2. T + P + 4 \in D /\ D \subseteq Nat /\ \A k \in D : k >= T + P + 4
      <4>1. T + P + 4 \in 1 .. n /\ T + P + 4 > T + P + 3
        <5>1. n = T + P + 4 + S
          BY ONLY <1>6b, <2>3
        <5> QED BY ONLY <5>1, T \in Nat, P \in Nat, S \in Nat
      <4>2. T + P + 4 \in D
        BY ONLY <2>d, <3>1, <4>1
      <4>3. D \subseteq Nat /\ \A k \in D : k >= T + P + 4
        <5>1. \A k \in D : k \in 1 .. n /\ k > T + P + 3
          BY ONLY <2>d
        <5> QED BY ONLY <5>1, T \in Nat, P \in Nat, n \in Nat
      <4> QED BY <4>2, <4>3
    <3>3. Min(D) = T + P + 4
      <4>1. Min(D) \in D /\ \A m \in D : Min(D) <= m
        BY <3>2, MinOfNats
      <4>2. PICK x : x = Min(D)
        OBVIOUS
      <4>3. x \in Nat /\ x <= T + P + 4 /\ x >= T + P + 4
        BY <3>2, <4>1, <4>2
      <4> QED BY ONLY <4>2, <4>3, T \in Nat, P \in Nat
    <3>4. PICK a \in Nat : a = T + P + 4
      OBVIOUS
    <3>5. \A i \in 1 .. Len(s) : L[a + i] = s[i]
      BY <1>2, <3>1, <3>4
    <3>6. SubSeq(L, a + 1, a + Len(s)) = s
      <4>1. L \in Seq(Words)
        BY ONLY <1>6
      <4> QED BY ONLY <4>1, <3>5, PartIs, a \in Nat, s \in Seq(Words)

    <3>7. Min(D) + 1 = a + 1 /\ Len(L) = a + Len(s)
      BY ONLY <1>2, <1>6, <3>1, <3>3, <3>4
    <3> QED BY ONLY <3>2, <3>6, <3>7
  <2> QED BY <2>2, <2>3
<1>23. Says(ParseEntryLine(L, type), e) /\ ParseEntryLine(L, type).type = type
  BY <1>1, <1>19, <1>20, <1>21, <1>22 DEF Says
<1> QED BY <1>4, <1>11, <1>18, <1>23

\* A set of positions is finite.
LEMMA FiniteUpto ==
    ASSUME NEW n \in Nat, NEW K, K \subseteq 1 .. n
    PROVE  IsFiniteSet(K) /\ K \subseteq Nat /\ K \subseteq 0 .. n
<1>1. IsFiniteSet(1 .. n)
  BY FS_Interval
<1>2. IsFiniteSet(K)
  BY ONLY <1>1, FS_Subset, K \subseteq 1 .. n
<1>3. K \subseteq Nat /\ K \subseteq 0 .. n
  BY ONLY K \subseteq 1 .. n, n \in Nat
<1> QED BY <1>2, <1>3

\* r holds the elements of s at the positions of K, which g lists in order.
ChosenBy(g, r, s, K) ==
    /\ g \in Seq(K) /\ Len(r) = Len(g)
    /\ \A n \in 1 .. Len(g) : g[n] \in K /\ r[n] = s[g[n]]
    /\ \A i, j \in 1 .. Len(g) : i < j => g[i] < g[j]
    /\ \A k \in K : \E i \in 1 .. Len(g) : g[i] = k

\* Picked takes the elements at the positions in order.
LEMMA PickedIs ==
    ASSUME NEW D, NEW s \in Seq(D), NEW K, K \subseteq 1 .. Len(s)
    PROVE  Picked(s, K) \in Seq(D) /\ \E g : ChosenBy(g, Picked(s, K), s, K)
<1>1. IsFiniteSet(K) /\ K \subseteq Nat
  <2>1. Len(s) \in Nat
    OBVIOUS
  <2> QED BY <2>1, FiniteUpto
<1>2. PICK g \in Seq(K) : g = InOrder(K)
  BY <1>1, InOrderIs
<1>3. /\ \A i, j \in 1 .. Len(g) : i < j => g[i] < g[j]
      /\ \A k \in K : \E i \in 1 .. Len(g) : g[i] = k
  BY <1>1, <1>2, InOrderIs
<1>4. DOMAIN g = 1 .. Len(g) /\ Len(g) \in Nat /\ \A n \in 1 .. Len(g) : g[n] \in K
  OBVIOUS
<1>5. Picked(s, K) = [n \in 1 .. Len(g) |-> s[g[n]]]
  BY <1>2, <1>4 DEF Picked
<1>6. \A n \in 1 .. Len(g) : s[g[n]] \in D
  <2>1. \A k \in 1 .. Len(s) : s[k] \in D
    OBVIOUS
  <2>2. \A n \in 1 .. Len(g) : g[n] \in 1 .. Len(s)
    BY ONLY <1>4, K \subseteq 1 .. Len(s)
  <2> QED BY ONLY <2>1, <2>2
<1>7. Picked(s, K) \in Seq(D) /\ Len(Picked(s, K)) = Len(g)
  <2>1. Picked(s, K) \in [1 .. Len(g) -> D]
    BY <1>5, <1>6
  <2> QED BY <2>1, <1>4
<1>8. \A n \in 1 .. Len(g) : Picked(s, K)[n] = s[g[n]]
  BY <1>5
<1>9. ChosenBy(g, Picked(s, K), s, K)
  BY ONLY <1>3, <1>4, <1>7, <1>8, g \in Seq(K) DEF ChosenBy
<1> QED BY <1>7, <1>9

\* A flattened sequence of sequences of one element.
LEMMA FlattenOnes ==
    ASSUME NEW D, NEW s \in Seq(Seq(D)), \A n \in 1 .. Len(s) : Len(s[n]) = 1
    PROVE  /\ FlattenSeq(s) \in Seq(D) /\ Len(FlattenSeq(s)) = Len(s)
           /\ \A n \in 1 .. Len(s) : FlattenSeq(s)[n] = s[n][1]
<1>0. FlattenSeq(s) \in Seq(D) /\ \E o : Offsets(o, s, FlattenSeq(s))
  BY FlattenIs
<1>o. PICK o : Offsets(o, s, FlattenSeq(s))
  BY <1>0
<1>1. /\ FlattenSeq(s) \in Seq(D) /\ Len(FlattenSeq(s)) = o[Len(s) + 1]
      /\ o \in [1 .. Len(s) + 1 -> Nat] /\ o[1] = 0
      /\ \A n \in 1 .. Len(s) : o[n + 1] = o[n] + Len(s[n])
      /\ \A n \in 1 .. Len(s), m \in Nat \ {0} :
            m <= Len(s[n]) => FlattenSeq(s)[o[n] + m] = s[n][m]
  BY ONLY <1>0, <1>o DEF Offsets
<1>2. PICK N \in Nat : N = Len(s)
  OBVIOUS
<1>3. \A n \in 1 .. N + 1 : o[n] = n - 1
  <2> DEFINE Bad == {n \in 1 .. N + 1 : o[n] # n - 1}
  <2>1. Bad \subseteq Nat
    OBVIOUS
  <2>2. ASSUME Bad # {} PROVE FALSE
    <3>1. PICK n \in Bad : \A m \in Bad : n <= m
      <4> HIDE DEF Bad
      <4> QED BY <2>1, <2>2, LeastNat
    <3>2. n # 1 /\ n \in 1 .. N + 1 /\ o[n] # n - 1
      BY <1>1
    <3>3. n - 1 \in 1 .. N /\ n - 1 \notin Bad
      BY <3>1, <3>2
    <3>4. o[n - 1] = n - 2
      BY <3>3
    <3>5. o[(n - 1) + 1] = o[n - 1] + Len(s[n - 1])
      BY <1>1, <1>2, <3>3
    <3>6. Len(s[n - 1]) = 1
      BY <1>2, <3>3
    <3>7. (n - 1) + 1 = n /\ n \in Nat
      BY <3>2
    <3> HIDE DEF Bad
    <3> QED BY ONLY <3>2, <3>4, <3>5, <3>6, <3>7
  <2> QED BY <2>2
<1>4. Len(FlattenSeq(s)) = N
  <2>1. o[N + 1] = N
    BY <1>3
  <2> QED BY ONLY <1>1, <1>2, <2>1
<1>5. \A n \in 1 .. N : FlattenSeq(s)[n] = s[n][1]
  <2> TAKE n \in 1 .. N
  <2>1. FlattenSeq(s)[o[n] + 1] = s[n][1]
    <3>0. n \in 1 .. Len(s)
      BY ONLY <1>2, n \in 1 .. N
    <3>1a. Len(s[n]) = 1
      BY <3>0
    <3>1. n \in 1 .. Len(s) /\ 1 \in Nat \ {0} /\ 1 <= Len(s[n])
      BY ONLY <3>0, <3>1a
    <3> QED BY ONLY <1>1, <3>1
  <2>2. o[n] + 1 = n
    BY <1>3
  <2> QED BY ONLY <2>1, <2>2
<1> QED BY <1>1, <1>2, <1>4, <1>5

\* parseEntryLine returns an entry, whatever the line.
LEMMA ParseEntryTypes ==
    ASSUME NEW L \in Text, IsEntry(L), NEW type \in Words
    PROVE  ParseEntryLine(L, type) \in Entry
<1>1. PICK n \in Nat : n = Len(L) /\ L \in Seq(Words)
  BY DEF Text
<1> DEFINE B == Where(L, "](")
<1>2. B \subseteq 1 .. n /\ B # {} /\ Begins(L, "- [") /\ 1 \notin B
  <2>1. B = {k \in 1 .. n : L[k] = "]("}
    BY <1>1, WhereIs
  <2>2. Where(L, "](") # {} /\ Begins(L, "- [")
    BY DEF IsEntry
  <2>3. L[1] = "- ["
    BY <2>2 DEF Begins
  <2>4. 1 \notin B
    BY <2>1, <2>3
  <2>5. B \subseteq 1 .. n
    BY ONLY <2>1
  <2> QED BY <2>2, <2>4, <2>5
<1> HIDE DEF B
<1>3. PICK b \in B : b = Boundary(L)
  <2>1. B \subseteq 0 .. n
    BY <1>2, FiniteUpto
  <2>2. Max(B) \in B
    BY <1>2, <2>1, MaxOfNats
  <2> QED BY <2>2 DEF Boundary, B
<1>4. b \in 2 .. n
  <2>1. b \in 1 .. n /\ b # 1
    BY ONLY <1>2, b \in B
  <2> QED BY ONLY <2>1, n \in Nat
<1> DEFINE C == {k \in Where(L, ")") : k > b}
<1>5. C \subseteq 1 .. n /\ C # {} /\ \A k \in C : k > b
  BY <1>1, <1>3, WhereIs DEF IsEntry
<1> HIDE DEF C
<1>6. PICK c \in C : c = Min(C)
  <2>1. C \subseteq Nat
    BY <1>5, FiniteUpto
  <2> QED BY <1>5, <2>1, MinOfNats
<1>7. c \in 1 .. n /\ c > b
  BY ONLY <1>5, c \in C
<1> DEFINE after == {k \in Where(L, " -- ") : k > c}
<1>8. after \subseteq 1 .. n
  BY <1>1, WhereIs
<1> DEFINE r == ParseEntryLine(L, type)
           Path == SubSeq(L, b + 1, c - 1)
           Title == SubSeq(L, 2, b - 1)
           Summary == IF after = {} THEN <<>> ELSE SubSeq(L, Min(after) + 1, Len(L))
<1>9. r = [path |-> Path, title |-> Title, summary |-> Summary, type |-> type]
  BY <1>3, <1>6, Zenon DEF ParseEntryLine, C
<1>10. Path \in Text
  <2>1. PICK k \in Nat : k = c - b - 1
    BY <1>4, <1>7
  <2>2. c - 1 = b + k /\ b \in Nat /\ b + k <= n
    BY <1>4, <1>7, <2>1
  <2>3. SubSeq(L, b + 1, b + k) \in Seq(Words)
    BY <1>1, <2>2, SubSeqIs
  <2> QED BY <2>2, <2>3 DEF Text
<1>11. Title \in Text
  <2>1. PICK k \in Nat : k = b - 2
    BY <1>4
  <2>2. b - 1 = 1 + k /\ 1 + k <= n
    BY <1>4, <2>1
  <2>3. SubSeq(L, 1 + 1, 1 + k) \in Seq(Words)
    BY <1>1, <2>2, SubSeqIs
  <2>4. 1 + 1 = 2
    OBVIOUS
  <2> QED BY <2>2, <2>3, <2>4 DEF Text
<1>12. Summary \in Text
  <2>1. CASE after = {}
    <3>1. <<>> \in Text
      BY DEF Text
    <3> QED BY <2>1, <3>1
  <2>2. CASE after # {}
    <3> HIDE DEF after
    <3>1. PICK a \in after : a = Min(after)
      <4>1. after \subseteq Nat
        BY <1>8, FiniteUpto
      <4> QED BY <2>2, <4>1, MinOfNats
    <3>2. PICK k \in Nat : k = n - a /\ a \in Nat /\ a + k <= n
      BY <1>8
    <3>3. SubSeq(L, a + 1, a + k) \in Seq(Words)
      BY <1>1, <3>2, SubSeqIs
    <3>4. a + k = n
      BY <3>2
    <3> QED BY <1>1, <2>2, <3>1, <3>3, <3>4 DEF Text
  <2> QED BY <2>1, <2>2
<1> HIDE DEF r, Path, Title, Summary
<1> QED BY <1>9, <1>10, <1>11, <1>12 DEF Entry, r

\* The heading above a line.
LEMMA TypeAtIs ==
    ASSUME NEW lines \in Seq(Text), NEW k \in 1 .. Len(lines)
    PROVE  /\ TypeAt(lines, k) \in Words
           /\ \A h \in Headings(lines, k) :
                 (\A j \in Headings(lines, k) : j <= h) => TypeAt(lines, k) = Lowered[HeadingType(lines[h])]
<1> DEFINE H == Headings(lines, k)
<1>1. H \subseteq 1 .. k /\ \A h \in H : lines[h] \in Text /\ lines[h] # <<>>
  <2>1. H \subseteq 1 .. k /\ \A h \in H : Begins(lines[h], "## ")
    BY DEF Headings
  <2>2. \A h \in 1 .. k : lines[h] \in Text
    OBVIOUS
  <2>3. \A h \in H : lines[h] # <<>>
    BY <2>1 DEF Begins
  <2> HIDE DEF H
  <2> QED BY ONLY <2>1, <2>2, <2>3
<1>2. \A h \in H : HeadingType(lines[h]) \in Words
  <2> TAKE h \in H
  <2>1. PICK L \in Seq(Words) : L = lines[h] /\ L # <<>>
    BY <1>1 DEF Text
  <2>2. (IF Len(L) = 1 THEN "" ELSE L[2]) \in Words
    <3>1. "" \in Words
      BY ONLY Marks
    <3>2. Len(L) # 1 => 2 \in 1 .. Len(L)
      <4>1. Len(L) \in Nat /\ Len(L) # 0
        BY ONLY <2>1, L \in Seq(Words)
      <4>2. PICK l \in Nat : l = Len(L)
        BY <4>1
      <4>3. l # 1 => 2 \in 1 .. l
        BY ONLY <4>1, <4>2
      <4> QED BY ONLY <4>2, <4>3
    <3>3. Len(L) # 1 => L[2] \in Words
      BY ONLY <3>2, L \in Seq(Words)
    <3> QED BY ONLY <3>1, <3>3
  <2> QED BY <2>1, <2>2 DEF HeadingType
<1>3. TypeAt(lines, k) = IF H = {} THEN "" ELSE Lowered[HeadingType(lines[Max(H)])]
  BY DEF TypeAt
<1> HIDE DEF H
<1>4. H # {} => Max(H) \in H /\ \A m \in H : Max(H) >= m
  <2>1. k \in Nat
    OBVIOUS
  <2>2. H \subseteq 0 .. k
    BY <1>1, <2>1, FiniteUpto
  <2> QED BY ONLY <2>1, <2>2, MaxOfNats
<1>5. \A t \in Words : Lowered[t] \in Words
  BY ManagedFilesAssumption
<1>6. TypeAt(lines, k) \in Words
  <2>1. "" \in Words
    BY Marks
  <2> QED BY <1>2, <1>3, <1>4, <1>5, <2>1
<1>7. ASSUME NEW h \in H, \A j \in H : j <= h PROVE TypeAt(lines, k) = Lowered[HeadingType(lines[h])]
  <2>1. PICK x : x = Max(H)
    OBVIOUS
  <2>2. x \in H /\ x >= h /\ x <= h
    BY <1>4, <1>7, <2>1
  <2>3. x = h
    BY <1>1, <2>2
  <2> QED BY <1>3, <2>1, <2>3
<1> QED BY <1>6, <1>7 DEF H

\* parseIndex returns one entry for each entry line, in order.
LEMMA ParseIndexIs ==
    ASSUME NEW lines \in Seq(Text)
    PROVE  \E g \in Seq(1 .. Len(lines)) :
              /\ ParseIndex(lines) \in Seq(Entry) /\ Len(ParseIndex(lines)) = Len(g)
              /\ \A n \in 1 .. Len(g) :
                    /\ g[n] \in 1 .. Len(lines) /\ IsEntry(lines[g[n]])
                    /\ ParseIndex(lines)[n] = ParseEntryLine(lines[g[n]], TypeAt(lines, g[n]))
              /\ \A i, j \in 1 .. Len(g) : i < j => g[i] < g[j]
              /\ \A k \in 1 .. Len(lines) : IsEntry(lines[k]) => \E i \in 1 .. Len(g) : g[i] = k
<1> DEFINE K == {k \in DOMAIN lines : IsEntry(lines[k])}
<1>1. K \subseteq 1 .. Len(lines) /\ \A k \in K : IsEntry(lines[k])
  OBVIOUS
<1>1a. \A k \in 1 .. Len(lines) : IsEntry(lines[k]) => k \in K
  OBVIOUS
<1>2. ParseIndex(lines) = [n \in DOMAIN InOrder(K) |->
                             ParseEntryLine(lines[InOrder(K)[n]], TypeAt(lines, InOrder(K)[n]))]
  BY Zenon DEF ParseIndex
<1> HIDE DEF K
<1>3. IsFiniteSet(K) /\ K \subseteq Nat
  <2>1. Len(lines) \in Nat
    OBVIOUS
  <2> QED BY <1>1, <2>1, FiniteUpto
<1>4. PICK g \in Seq(K) : g = InOrder(K)
  BY <1>3, InOrderIs
<1>5. /\ \A i, j \in 1 .. Len(g) : i < j => g[i] < g[j]
      /\ \A k \in K : \E i \in 1 .. Len(g) : g[i] = k
  BY <1>3, <1>4, InOrderIs
<1>6. DOMAIN g = 1 .. Len(g) /\ Len(g) \in Nat /\ \A n \in 1 .. Len(g) : g[n] \in K
  OBVIOUS
<1> DEFINE e(n) == ParseEntryLine(lines[g[n]], TypeAt(lines, g[n]))
<1>7. ParseIndex(lines) = [n \in 1 .. Len(g) |-> e(n)]
  BY <1>2, <1>4, <1>6
<1>8. \A n \in 1 .. Len(g) : g[n] \in 1 .. Len(lines) /\ IsEntry(lines[g[n]]) /\ e(n) \in Entry
  <2> TAKE n \in 1 .. Len(g)
  <2>1. g[n] \in 1 .. Len(lines) /\ IsEntry(lines[g[n]])
    BY <1>1, <1>6
  <2>2. TypeAt(lines, g[n]) \in Words /\ lines[g[n]] \in Text
    BY <2>1, TypeAtIs
  <2> QED BY <2>1, <2>2, ParseEntryTypes
<1> HIDE DEF e
<1>9. ParseIndex(lines) \in [1 .. Len(g) -> Entry]
  BY <1>7, <1>8
<1>10. ParseIndex(lines) \in Seq(Entry) /\ Len(ParseIndex(lines)) = Len(g)
  BY <1>6, <1>9
<1>11. \A n \in 1 .. Len(g) : ParseIndex(lines)[n] = e(n)
  BY <1>7
<1>12. g \in Seq(1 .. Len(lines))
  BY <1>6, <1>8
<1> QED BY <1>1a, <1>5, <1>8, <1>10, <1>11, <1>12 DEF e

\* An entry is written as a text.
LEMMA EntryTextTypes ==
    ASSUME NEW e \in Entry
    PROVE  EntryText(e) \in Text /\ Lines(EntryText(e)) \in Seq(Text)
<1>1. PICK T \in Nat, P \in Nat, S \in Nat : T = Len(e.title) /\ P = Len(e.path) /\ S = Len(e.summary)
  <2>1. e.title \in Seq(Words) /\ e.path \in Seq(Words) /\ e.summary \in Seq(Words)
    BY DEF Entry, Text
  <2> QED BY <2>1
<1>2. EntryText(e) \in Text
  BY <1>1, EntryLayout
<1> QED BY <1>2, LinesAre

\* The entries of a type, in order.
LEMMA OfTypeIs ==
    ASSUME NEW es \in Seq(Entry), NEW t
    PROVE  OfType(es, t) \in Seq(Entry)
           /\ \E g : ChosenBy(g, OfType(es, t), es, {k \in DOMAIN es : es[k].type = t})
<1> DEFINE K == {k \in DOMAIN es : es[k].type = t}
<1>1. K \subseteq 1 .. Len(es)
  OBVIOUS
<1>2. OfType(es, t) = Picked(es, K)
  BY DEF OfType
<1> HIDE DEF K
<1>3. Picked(es, K) \in Seq(Entry) /\ \E g : ChosenBy(g, Picked(es, K), es, K)
  BY ONLY <1>1, PickedIs, es \in Seq(Entry)
<1> QED BY ONLY <1>2, <1>3 DEF K

\* The heading of a type is read as that type and as no entry.
LEMMA HeadingLine ==
    ASSUME NEW t \in Words
    PROVE  /\ <<"## ", t>> \in Text /\ Begins(<<"## ", t>>, "## ")
           /\ HeadingType(<<"## ", t>>) = t /\ ~IsEntry(<<"## ", t>>)
<1>1. "## " \in Words /\ "- [" # "## "
  BY Marks
<1>2. <<"## ", t>> \in Text
  <2>1. PICK w \in Words : w = "## "
    BY <1>1
  <2>2. <<w, t>> \in Seq(Words)
    BY ONLY w \in Words, t \in Words
  <2> QED BY <2>1, <2>2 DEF Text
<1>3. PICK L \in Text : L = <<"## ", t>>
  BY <1>2
<1>4. Len(L) = 2 /\ L[1] = "## " /\ L[2] = t /\ L # <<>>
  BY ONLY <1>3
<1>5. Begins(L, "## ") /\ ~Begins(L, "- [")
  BY ONLY <1>1, <1>4 DEF Begins
<1>6. HeadingType(L) = t
  <2>1. Len(L) # 1
    <3>1. PICK w : w = "## "
      OBVIOUS
    <3>2. L = <<w, t>>
      BY ONLY <1>3, <3>1
    <3> QED BY ONLY <3>2
  <2> QED BY <1>4, <2>1, Zenon DEF HeadingType
<1> QED BY ONLY <1>3, <1>5, <1>6 DEF IsEntry

\* A group holds the line of each of its entries that is clean.
LEMMA GroupHolds ==
    ASSUME NEW es \in Seq(Entry), NEW t \in Words
    PROVE  /\ Group(es, t) \in Seq(Text)
           /\ \A k \in 1 .. Len(es) : es[k].type = t /\ CleanEntry(es[k]) =>
                 \E j \in 1 .. Len(Group(es, t)) : Group(es, t)[j] = EntryText(es[k])
<1> DEFINE K == {k \in DOMAIN es : es[k].type = t}
<1>0. OfType(es, t) \in Seq(Entry) /\ \E g : ChosenBy(g, OfType(es, t), es, K)
  BY OfTypeIs
<1>k. (\A k \in K : k \in 1 .. Len(es) /\ es[k].type = t) /\ \A k \in 1 .. Len(es) : es[k].type = t => k \in K
  OBVIOUS
<1> HIDE DEF K
<1>g. PICK g : ChosenBy(g, OfType(es, t), es, K)
  BY <1>0
<1>1. /\ OfType(es, t) \in Seq(Entry) /\ Len(OfType(es, t)) = Len(g)
      /\ \A n \in 1 .. Len(g) : /\ g[n] \in 1 .. Len(es) /\ es[g[n]].type = t
                               /\ OfType(es, t)[n] = es[g[n]]
      /\ \A i, j \in 1 .. Len(g) : i < j => g[i] < g[j]
      /\ \A k \in 1 .. Len(es) : es[k].type = t => \E i \in 1 .. Len(g) : g[i] = k
  BY ONLY <1>0, <1>k, <1>g DEF ChosenBy
<1>2. PICK same \in Seq(Entry) : same = OfType(es, t)
  BY <1>1
<1> DEFINE s == [n \in DOMAIN same |-> Lines(EntryText(same[n]))]
<1>3. s \in Seq(Seq(Text)) /\ Len(s) = Len(same) /\ \A n \in 1 .. Len(same) : s[n] = Lines(EntryText(same[n]))
  <2>1. DOMAIN same = 1 .. Len(same) /\ Len(same) \in Nat /\ \A n \in 1 .. Len(same) : same[n] \in Entry
    OBVIOUS
  <2>2. \A n \in 1 .. Len(same) : Lines(EntryText(same[n])) \in Seq(Text)
    BY <2>1, EntryTextTypes
  <2>3. s = [n \in 1 .. Len(same) |-> Lines(EntryText(same[n]))]
    BY <2>1
  <2>4. s \in [1 .. Len(same) -> Seq(Text)] /\ \A n \in 1 .. Len(same) : s[n] = Lines(EntryText(same[n]))
    BY ONLY <2>2, <2>3
  <2> QED BY ONLY <2>1, <2>4
<1>4. Group(es, t) = << <<"## ", t>> >> \o FlattenSeq(s)
  BY <1>2 DEF Group
<1> HIDE DEF s
<1>f. FlattenSeq(s) \in Seq(Text) /\ \E o : Offsets(o, s, FlattenSeq(s))
  BY <1>3, FlattenIs
<1>o. PICK o : Offsets(o, s, FlattenSeq(s))
  BY <1>f
<1>5. /\ FlattenSeq(s) \in Seq(Text) /\ Len(FlattenSeq(s)) = o[Len(s) + 1]
      /\ o \in [1 .. Len(s) + 1 -> Nat] /\ o[1] = 0
      /\ \A n \in 1 .. Len(s) : o[n + 1] = o[n] + Len(s[n])
      /\ \A n \in 1 .. Len(s), m \in Nat \ {0} :
            m <= Len(s[n]) => FlattenSeq(s)[o[n] + m] = s[n][m]
      /\ \A n, k \in 1 .. Len(s) + 1 : n <= k => o[n] <= o[k]
  BY ONLY <1>f, <1>o DEF Offsets
<1>6. PICK flat \in Seq(Text), h \in Text : flat = FlattenSeq(s) /\ h = <<"## ", t>>
  <2>1. <<"## ", t>> \in Text
    BY HeadingLine
  <2> QED BY ONLY <1>5, <2>1
<1>6a. PICK l \in Nat : Len(flat) = l
  OBVIOUS
<1>7. PICK G : G = <<h>> \o flat
  OBVIOUS
<1>8. G \in Seq(Text) /\ Len(G) = 1 + l
  BY ONLY <1>6a, <1>7, h \in Text, flat \in Seq(Text), l \in Nat
<1>9. \A i \in 1 .. l : G[1 + i] = flat[i]
  BY ONLY <1>6a, <1>7, h \in Text, flat \in Seq(Text), l \in Nat
<1>10. G = Group(es, t)
  BY <1>4, <1>6, <1>7
<1>11. ASSUME NEW k \in 1 .. Len(es), es[k].type = t, CleanEntry(es[k])
       PROVE  \E j \in 1 .. Len(G) : G[j] = EntryText(es[k])
  <2>1. PICK n \in 1 .. Len(g) : g[n] = k
    BY <1>1, <1>11
  <2>2. n \in 1 .. Len(s) /\ s[n] = Lines(EntryText(es[k]))
    <3>1. Len(g) = Len(same) /\ Len(same) = Len(s)
      BY ONLY <1>1, <1>2, <1>3
    <3>2. same[n] = es[k]
      BY ONLY <1>1, <1>2, <2>1, n \in 1 .. Len(g)
    <3>3. n \in 1 .. Len(s) /\ n \in 1 .. Len(same)
      BY ONLY <3>1, n \in 1 .. Len(g)
    <3> QED BY ONLY <1>3, <3>2, <3>3
  <2>3. es[k] \in Entry
    OBVIOUS
  <2>4. s[n] = <<EntryText(es[k])>>
    BY <1>11, <2>2, <2>3, EntryLine
  <2>5. Len(s[n]) = 1 /\ s[n][1] = EntryText(es[k])
    BY ONLY <2>4
  <2>6. flat[o[n] + 1] = EntryText(es[k])
    <3>1. 1 \in Nat \ {0} /\ 1 <= Len(s[n])
      BY ONLY <2>5
    <3>2. FlattenSeq(s)[o[n] + 1] = s[n][1]
      BY ONLY <1>5, <2>2, <3>1
    <3> QED BY ONLY <1>6, <2>5, <3>2
  <2>7. PICK N \in Nat : N = Len(s)
    BY <1>3
  <2>8. n \in 1 .. N /\ n + 1 \in 1 .. N + 1 /\ N + 1 \in 1 .. N + 1 /\ n + 1 <= N + 1
    BY ONLY <2>2, <2>7
  <2>9. PICK a \in Nat, b \in Nat : a = o[n] /\ b = o[n + 1]
    <3>1. o \in [1 .. N + 1 -> Nat] /\ n \in 1 .. N + 1
      BY ONLY <1>5, <2>7, <2>8
    <3> QED BY ONLY <3>1, <2>8
  <2>10. b = a + 1
    BY ONLY <1>5, <2>2, <2>5, <2>9
  <2>11. b <= l
    BY ONLY <1>5, <1>6, <1>6a, <2>7, <2>8, <2>9
  <2>12. a + 1 \in 1 .. l
    BY ONLY <2>10, <2>11, a \in Nat, l \in Nat
  <2>13. 1 + (a + 1) \in 1 .. Len(G)
    BY ONLY <1>8, <2>12, a \in Nat, l \in Nat
  <2>14. G[1 + (a + 1)] = EntryText(es[k])
    BY ONLY <1>9, <2>6, <2>9, <2>12
  <2> QED BY ONLY <2>13, <2>14
<1> QED BY ONLY <1>8, <1>10, <1>11

\* The layout of a group of clean entries.
LEMMA GroupOfClean ==
    ASSUME NEW es \in Seq(Entry), NEW t \in Words, \A k \in 1 .. Len(es) : CleanEntry(es[k])
    PROVE  \E g \in Seq(1 .. Len(es)) :
              /\ Group(es, t) \in Seq(Text) /\ Len(Group(es, t)) = Len(g) + 1
              /\ Group(es, t)[1] = <<"## ", t>>
              /\ \A n \in 1 .. Len(g) : /\ g[n] \in 1 .. Len(es) /\ es[g[n]].type = t
                                       /\ Group(es, t)[1 + n] = EntryText(es[g[n]])
              /\ \A i, j \in 1 .. Len(g) : i < j => g[i] < g[j]
<1> DEFINE K == {k \in DOMAIN es : es[k].type = t}
<1>0. OfType(es, t) \in Seq(Entry) /\ \E g : ChosenBy(g, OfType(es, t), es, K)
  BY OfTypeIs
<1>k. (\A k \in K : k \in 1 .. Len(es) /\ es[k].type = t) /\ \A k \in 1 .. Len(es) : es[k].type = t => k \in K
  OBVIOUS
<1> HIDE DEF K
<1>g. PICK g : ChosenBy(g, OfType(es, t), es, K)
  BY <1>0
<1>1. /\ OfType(es, t) \in Seq(Entry) /\ Len(OfType(es, t)) = Len(g)
      /\ \A n \in 1 .. Len(g) : /\ g[n] \in 1 .. Len(es) /\ es[g[n]].type = t
                               /\ OfType(es, t)[n] = es[g[n]]
      /\ \A i, j \in 1 .. Len(g) : i < j => g[i] < g[j]
      /\ \A k \in 1 .. Len(es) : es[k].type = t => \E i \in 1 .. Len(g) : g[i] = k
  BY ONLY <1>0, <1>k, <1>g DEF ChosenBy
<1>2. PICK same \in Seq(Entry) : same = OfType(es, t)
  BY <1>1
<1> DEFINE s == [n \in DOMAIN same |-> Lines(EntryText(same[n]))]
<1>3. s \in Seq(Seq(Text)) /\ Len(s) = Len(same) /\ \A n \in 1 .. Len(same) : s[n] = Lines(EntryText(same[n]))
  <2>1. DOMAIN same = 1 .. Len(same) /\ Len(same) \in Nat /\ \A n \in 1 .. Len(same) : same[n] \in Entry
    OBVIOUS
  <2>2. \A n \in 1 .. Len(same) : Lines(EntryText(same[n])) \in Seq(Text)
    BY <2>1, EntryTextTypes
  <2>3. s = [n \in 1 .. Len(same) |-> Lines(EntryText(same[n]))]
    BY <2>1
  <2>4. s \in [1 .. Len(same) -> Seq(Text)] /\ \A n \in 1 .. Len(same) : s[n] = Lines(EntryText(same[n]))
    BY ONLY <2>2, <2>3
  <2> QED BY ONLY <2>1, <2>4
<1>4. Group(es, t) = << <<"## ", t>> >> \o FlattenSeq(s)
  BY <1>2 DEF Group
<1> HIDE DEF s
<1>5. PICK N \in Nat : N = Len(g) /\ N = Len(s)
  BY <1>1, <1>2, <1>3
<1>6. \A n \in 1 .. N : s[n] = <<EntryText(es[g[n]])>>
  <2> TAKE n \in 1 .. N
  <2>1. g[n] \in 1 .. Len(es) /\ s[n] = Lines(EntryText(es[g[n]]))
    BY <1>1, <1>2, <1>3, <1>5
  <2>2. es[g[n]] \in Entry /\ CleanEntry(es[g[n]])
    BY <2>1
  <2> QED BY <2>1, <2>2, EntryLine
<1>7. \A n \in 1 .. N : Len(s[n]) = 1 /\ s[n][1] = EntryText(es[g[n]])
  <2> TAKE n \in 1 .. N
  <2>1. s[n] = <<EntryText(es[g[n]])>>
    BY <1>6
  <2> QED BY ONLY <2>1
<1>8. /\ FlattenSeq(s) \in Seq(Text) /\ Len(FlattenSeq(s)) = Len(s)
      /\ \A n \in 1 .. Len(s) : FlattenSeq(s)[n] = s[n][1]
  BY <1>3, <1>5, <1>7, FlattenOnes
<1>9. PICK flat \in Seq(Text), h \in Text : flat = FlattenSeq(s) /\ h = <<"## ", t>>
  <2>1. <<"## ", t>> \in Text
    BY HeadingLine
  <2> QED BY ONLY <1>8, <2>1
<1>10. Len(flat) = N
  BY ONLY <1>5, <1>8, <1>9
<1>11. PICK G : G = <<h>> \o flat
  OBVIOUS
<1>12. G \in Seq(Text) /\ Len(G) = N + 1
  BY ONLY <1>10, <1>11, h \in Text, flat \in Seq(Text), N \in Nat
<1>13. \A i \in 1 .. N : G[1 + i] = flat[i]
  BY ONLY <1>10, <1>11, h \in Text, flat \in Seq(Text), N \in Nat
<1>14. G[1] = h
  BY ONLY <1>11, h \in Text, flat \in Seq(Text)
<1>15. G = Group(es, t)
  BY <1>4, <1>9, <1>11
<1>16. \A n \in 1 .. N : g[n] \in 1 .. Len(es) /\ es[g[n]].type = t /\ G[1 + n] = EntryText(es[g[n]])
  <2> TAKE n \in 1 .. N
  <2>1. G[1 + n] = flat[n]
    BY ONLY <1>13, n \in 1 .. N
  <2>2. flat[n] = EntryText(es[g[n]])
    BY ONLY <1>5, <1>7, <1>8, <1>9, n \in 1 .. N
  <2>3. g[n] \in 1 .. Len(es) /\ es[g[n]].type = t
    BY ONLY <1>1, <1>5, n \in 1 .. N
  <2> QED BY ONLY <2>1, <2>2, <2>3
<1>17. g \in Seq(1 .. Len(es))
  <2>1. g \in Seq(K)
    BY ONLY <1>g DEF ChosenBy
  <2> QED BY ONLY <2>1, <1>k
<1> QED BY ONLY <1>1, <1>5, <1>9, <1>12, <1>14, <1>15, <1>16, <1>17

\* The groups of the rendered index: g lists the first entry of each type.
Grouped(es, g, s) ==
    /\ g \in Seq(1 .. Len(es)) /\ s \in Seq(Seq(Text)) /\ Len(s) = Len(g)
    /\ RenderIndex(es) = FlattenSeq(s)
    /\ \A n \in 1 .. Len(g) : s[n] = Group(es, es[g[n]].type)
    /\ \A i, j \in 1 .. Len(g) : i # j => es[g[i]].type # es[g[j]].type
    /\ \A k \in 1 .. Len(es) : \E i \in 1 .. Len(g) : es[g[i]].type = es[k].type

\* RenderIndex writes one group for each type.
LEMMA RenderGroups ==
    ASSUME NEW es \in Seq(Entry)
    PROVE  \E g, s : Grouped(es, g, s)
<1> DEFINE F == Firsts(es)
<1>1. F \subseteq 1 .. Len(es) /\ \A k \in F : \A j \in 1 .. k - 1 : es[j].type # es[k].type
  BY DEF Firsts
<1>2. \A k \in 1 .. Len(es) : \E f \in F : es[f].type = es[k].type
  <2> TAKE k \in 1 .. Len(es)
  <2> DEFINE T == {j \in 1 .. Len(es) : es[j].type = es[k].type}
  <2>1. T \subseteq Nat /\ T # {}
    OBVIOUS
  <2>2. PICK f \in T : \A m \in T : f <= m
    <3> HIDE DEF T
    <3> QED BY <2>1, LeastNat
  <2>3. f \in 1 .. Len(es) /\ es[f].type = es[k].type
    OBVIOUS
  <2>4. \A j \in 1 .. f - 1 : es[j].type # es[f].type
    <3>1. SUFFICES ASSUME NEW j \in 1 .. f - 1, es[j].type = es[f].type PROVE FALSE
      OBVIOUS
    <3>2. j \in 1 .. Len(es) /\ j < f
      BY <2>3
    <3>3. j \in T
      BY <2>3, <3>1, <3>2
    <3> QED BY <2>2, <2>3, <3>2, <3>3
  <2>5. f \in F
    BY <2>3, <2>4 DEF Firsts
  <2> QED BY <2>3, <2>5
<1> HIDE DEF F
<1>3. Picked(es, F) \in Seq(Entry) /\ \E g : ChosenBy(g, Picked(es, F), es, F)
  BY ONLY <1>1, PickedIs, es \in Seq(Entry)
<1>4. PICK g : ChosenBy(g, Picked(es, F), es, F)
  BY <1>3
<1>5. PICK firsts \in Seq(Entry) : firsts = Picked(es, F)
  BY <1>3
<1>6. /\ g \in Seq(F) /\ Len(firsts) = Len(g)
      /\ \A n \in 1 .. Len(g) : g[n] \in F /\ firsts[n] = es[g[n]]
      /\ \A i, j \in 1 .. Len(g) : i < j => g[i] < g[j]
      /\ \A k \in F : \E i \in 1 .. Len(g) : g[i] = k
  BY ONLY <1>4, <1>5 DEF ChosenBy
<1> DEFINE s == [n \in DOMAIN firsts |-> Group(es, firsts[n].type)]
<1>7. RenderIndex(es) = FlattenSeq(s)
  BY <1>5 DEF RenderIndex, F
<1>8. s \in Seq(Seq(Text)) /\ Len(s) = Len(g) /\ \A n \in 1 .. Len(g) : s[n] = Group(es, es[g[n]].type)
  <2>1. DOMAIN firsts = 1 .. Len(g) /\ Len(g) \in Nat
    BY <1>6
  <2>2. \A n \in 1 .. Len(g) : firsts[n] \in Entry /\ firsts[n].type \in Words /\ firsts[n].type = es[g[n]].type
    <3> TAKE n \in 1 .. Len(g)
    <3>1. firsts[n] \in Entry
      BY <2>1, <1>6
    <3>2. firsts[n].type \in Words
      BY <3>1 DEF Entry
    <3> QED BY <1>6, <3>1, <3>2
  <2>3. \A n \in 1 .. Len(g) : Group(es, firsts[n].type) \in Seq(Text)
    BY <2>2, GroupHolds
  <2>4. s = [n \in 1 .. Len(g) |-> Group(es, firsts[n].type)]
    BY <2>1
  <2>5. s \in [1 .. Len(g) -> Seq(Text)] /\ \A n \in 1 .. Len(g) : s[n] = Group(es, es[g[n]].type)
    BY ONLY <2>2, <2>3, <2>4
  <2> QED BY ONLY <2>1, <2>5
<1> HIDE DEF s
<1>9. g \in Seq(1 .. Len(es))
  <2>1. g \in Seq(F) /\ \A k \in F : k \in 1 .. Len(es)
    BY ONLY <1>1, <1>6
  <2> QED BY ONLY <2>1
<1>10. \A i, j \in 1 .. Len(g) : i # j => es[g[i]].type # es[g[j]].type
  <2>1. \A i, j \in 1 .. Len(g) : i < j => es[g[i]].type # es[g[j]].type
    <3> TAKE i, j \in 1 .. Len(g)
    <3>1. SUFFICES ASSUME i < j PROVE es[g[i]].type # es[g[j]].type
      OBVIOUS
    <3>2. g[i] \in 1 .. Len(es) /\ g[j] \in F /\ g[j] \in 1 .. Len(es) /\ g[i] < g[j]
      BY ONLY <1>1, <1>6, <3>1, i \in 1 .. Len(g), j \in 1 .. Len(g)
    <3>3. g[i] \in 1 .. g[j] - 1
      BY ONLY <3>2
    <3> QED BY ONLY <1>1, <3>2, <3>3
  <2>2. \A i, j \in 1 .. Len(g) : i # j => i < j \/ j < i
    OBVIOUS
  <2> QED BY ONLY <2>1, <2>2
<1>11. \A k \in 1 .. Len(es) : \E i \in 1 .. Len(g) : es[g[i]].type = es[k].type
  <2> TAKE k \in 1 .. Len(es)
  <2>1. PICK f \in F : es[f].type = es[k].type
    BY <1>2
  <2>2. PICK i \in 1 .. Len(g) : g[i] = f
    BY <1>6
  <2> QED BY <2>1, <2>2
<1>12. Grouped(es, g, s)
  BY ONLY <1>7, <1>8, <1>9, <1>10, <1>11 DEF Grouped
<1> QED BY <1>12

\* The rendered index holds the line of each clean entry.
LEMMA RenderHolds ==
    ASSUME NEW es \in Seq(Entry)
    PROVE  /\ RenderIndex(es) \in Seq(Text)
           /\ \A k \in 1 .. Len(es) : CleanEntry(es[k]) =>
                 \E j \in 1 .. Len(RenderIndex(es)) : RenderIndex(es)[j] = EntryText(es[k])
<1>1. PICK g, s : Grouped(es, g, s)
  BY RenderGroups
<1>2. /\ s \in Seq(Seq(Text)) /\ Len(s) = Len(g)
      /\ RenderIndex(es) = FlattenSeq(s)
      /\ \A n \in 1 .. Len(g) : s[n] = Group(es, es[g[n]].type)
      /\ \A k \in 1 .. Len(es) : \E i \in 1 .. Len(g) : es[g[i]].type = es[k].type
  BY <1>1 DEF Grouped
<1>f. FlattenSeq(s) \in Seq(Text) /\ \E o : Offsets(o, s, FlattenSeq(s))
  BY <1>2, FlattenIs
<1>o. PICK o : Offsets(o, s, FlattenSeq(s))
  BY <1>f
<1>3. /\ FlattenSeq(s) \in Seq(Text) /\ Len(FlattenSeq(s)) = o[Len(s) + 1]
      /\ o \in [1 .. Len(s) + 1 -> Nat] /\ o[1] = 0
      /\ \A n \in 1 .. Len(s) : o[n + 1] = o[n] + Len(s[n])
      /\ \A n \in 1 .. Len(s), m \in Nat \ {0} :
            m <= Len(s[n]) => FlattenSeq(s)[o[n] + m] = s[n][m]
      /\ \A n, k \in 1 .. Len(s) + 1 : n <= k => o[n] <= o[k]
  BY ONLY <1>f, <1>o DEF Offsets
<1>4. PICK R \in Seq(Text) : R = RenderIndex(es) /\ R = FlattenSeq(s)
  BY ONLY <1>2, <1>3
<1>5. ASSUME NEW k \in 1 .. Len(es), CleanEntry(es[k])
      PROVE  \E j \in 1 .. Len(R) : R[j] = EntryText(es[k])
  <2>1. PICK n \in 1 .. Len(g) : es[g[n]].type = es[k].type
    BY <1>2
  <2>2. es[k].type \in Words
    <3>1. es[k] \in Entry
      OBVIOUS
    <3> QED BY <3>1 DEF Entry
  <2>3. s[n] = Group(es, es[k].type)
    BY <1>2, <2>1
  <2>4. PICK m \in 1 .. Len(s[n]) : s[n][m] = EntryText(es[k])
    BY <1>5, <2>2, <2>3, GroupHolds
  <2>5. PICK N \in Nat : N = Len(s)
    BY <1>2
  <2>6. n \in 1 .. N /\ n + 1 \in 1 .. N + 1 /\ N + 1 \in 1 .. N + 1 /\ n + 1 <= N + 1 /\ n \in 1 .. N + 1
    BY ONLY <1>2, <2>5, n \in 1 .. Len(g)
  <2>7. PICK a \in Nat, b \in Nat, l \in Nat : a = o[n] /\ b = o[n + 1] /\ l = Len(s[n])
    <3>1. o \in [1 .. N + 1 -> Nat] /\ s \in Seq(Seq(Text)) /\ N = Len(s)
      BY ONLY <1>2, <1>3, <2>5
    <3>2. s[n] \in Seq(Text)
      BY ONLY <2>6, <3>1
    <3>3. o[n] \in Nat /\ o[n + 1] \in Nat
      BY ONLY <2>6, <3>1
    <3>4. Len(s[n]) \in Nat
      BY ONLY <3>2
    <3> QED BY ONLY <3>3, <3>4
  <2>8. b = a + l
    BY ONLY <1>3, <2>5, <2>6, <2>7
  <2>9. b <= Len(R)
    BY ONLY <1>3, <1>4, <2>5, <2>6, <2>7
  <2>10. m \in 1 .. l /\ m \in Nat \ {0} /\ m <= l
    BY ONLY <2>7, m \in 1 .. Len(s[n])
  <2>11. R[a + m] = EntryText(es[k])
    BY ONLY <1>3, <1>4, <2>4, <2>5, <2>6, <2>7, <2>10
  <2>12. Len(R) \in Nat
    OBVIOUS
  <2>13. a + m \in 1 .. Len(R)
    BY ONLY <2>8, <2>9, <2>10, <2>12, a \in Nat, b \in Nat, l \in Nat
  <2> QED BY ONLY <2>11, <2>13
<1> QED BY <1>4, <1>5

\* A clean entry that was rendered is read as it was.
LEMMA ReadBack ==
    ASSUME NEW es \in Seq(Entry), NEW k \in 1 .. Len(es), CleanEntry(es[k])
    PROVE  \E r \in ToSet(ParseIndex(RenderIndex(es))) : Says(r, es[k])
<1>1. PICK R \in Seq(Text) : R = RenderIndex(es)
  BY RenderHolds
<1>2. PICK j \in 1 .. Len(R) : R[j] = EntryText(es[k])
  BY <1>1, RenderHolds
<1>3. PICK g \in Seq(1 .. Len(R)) :
              /\ ParseIndex(R) \in Seq(Entry) /\ Len(ParseIndex(R)) = Len(g)
              /\ \A n \in 1 .. Len(g) :
                    /\ g[n] \in 1 .. Len(R) /\ IsEntry(R[g[n]])
                    /\ ParseIndex(R)[n] = ParseEntryLine(R[g[n]], TypeAt(R, g[n]))
              /\ \A i1, i2 \in 1 .. Len(g) : i1 < i2 => g[i1] < g[i2]
              /\ \A m \in 1 .. Len(R) : IsEntry(R[m]) => \E i \in 1 .. Len(g) : g[i] = m
  BY ParseIndexIs
<1>4. es[k] \in Entry
  OBVIOUS
<1>5. IsEntry(R[j])
  BY <1>2, <1>4, EntryLine
<1>6. PICK n \in 1 .. Len(g) : g[n] = j
  BY <1>3, <1>5
<1>7. ParseIndex(R)[n] = ParseEntryLine(EntryText(es[k]), TypeAt(R, j))
  BY <1>2, <1>3, <1>6
<1>8. Says(ParseIndex(R)[n], es[k])
  BY <1>4, <1>7, EntryLine
<1>9. ParseIndex(R)[n] \in ToSet(ParseIndex(R))
  BY <1>3 DEF ToSet
<1> QED BY <1>1, <1>8, <1>9

\* a is es with e at m, in the place of the entry of its path or at the end.
AddedAt(m, a, es, e) ==
    /\ m \in 1 .. Len(a) /\ a[m] = e
    /\ \A k \in 1 .. Len(a) : k # m => k \in 1 .. Len(es) /\ a[k] = es[k]
    /\ \A k \in 1 .. Len(es) :
          es[k].path # e.path => k # m /\ k \in 1 .. Len(a) /\ a[k] = es[k]
    /\ m \in 1 .. Len(es) => es[m].path = e.path
    /\ m \notin 1 .. Len(es) => \A k \in 1 .. Len(es) : es[k].path # e.path

\* AddEntry puts the entry in one place and leaves the others.
LEMMA AddedIs ==
    ASSUME NEW es \in Seq(Entry), NEW e \in Entry
    PROVE  Added(es, e) \in Seq(Entry) /\ \E m : AddedAt(m, Added(es, e), es, e)
<1> DEFINE same == {k \in DOMAIN es : es[k].path = e.path}
<1>1. PICK n \in Nat : n = Len(es) /\ DOMAIN es = 1 .. n
  OBVIOUS
<1>2. Added(es, e) = IF same = {} THEN Append(es, e) ELSE [es EXCEPT ![Min(same)] = e]
  BY DEF Added
<1>3. /\ same \subseteq 1 .. n /\ (\A k \in same : es[k].path = e.path)
      /\ \A k \in 1 .. n : es[k].path = e.path => k \in same
  BY <1>1
<1> HIDE DEF same
<1>4. PICK a : a = Added(es, e)
  OBVIOUS
<1>5. CASE same = {}
  <2>1. a = Append(es, e)
    BY <1>2, <1>4, <1>5
  <2>2. a \in Seq(Entry) /\ Len(a) = n + 1 /\ a[n + 1] = e /\ \A k \in 1 .. n : a[k] = es[k]
    BY ONLY <1>1, <2>1, es \in Seq(Entry), e \in Entry
  <2>3. \A k \in 1 .. n : es[k].path # e.path
    BY ONLY <1>3, <1>5
  <2>4. n + 1 \in 1 .. n + 1 /\ n + 1 \notin 1 .. n
        /\ (\A k \in 1 .. n + 1 : k # n + 1 => k \in 1 .. n) /\ \A k \in 1 .. n : k # n + 1 /\ k \in 1 .. n + 1
    BY ONLY n \in Nat
  <2>5. \A k \in 1 .. n + 1 : k # n + 1 => k \in 1 .. n /\ a[k] = es[k]
    BY ONLY <2>2, <2>4
  <2>6. AddedAt(n + 1, a, es, e)
    BY ONLY <1>1, <2>2, <2>3, <2>4, <2>5 DEF AddedAt
  <2> QED BY ONLY <1>4, <2>2, <2>6
<1>6. CASE same # {}
  <2>1. PICK m \in same : m = Min(same)
    <3>1. same \subseteq Nat
      BY <1>3, FiniteUpto
    <3> QED BY <1>6, <3>1, MinOfNats
  <2>2. a = [es EXCEPT ![m] = e]
    BY <1>2, <1>4, <1>6, <2>1
  <2>3. m \in 1 .. n /\ es[m].path = e.path
    BY <1>3
  <2>4. a \in Seq(Entry) /\ Len(a) = n /\ a[m] = e /\ \A k \in 1 .. n : k # m => a[k] = es[k]
    BY ONLY <1>1, <2>2, <2>3, es \in Seq(Entry), e \in Entry
  <2>5. \A k \in 1 .. n : es[k].path # e.path => k # m
    BY ONLY <2>3
  <2>6. AddedAt(m, a, es, e)
    BY ONLY <1>1, <2>3, <2>4, <2>5 DEF AddedAt
  <2> QED BY ONLY <1>4, <2>4, <2>6
<1> QED BY <1>5, <1>6

\* RemoveEntry keeps the entries of the other paths.
LEMMA RemovedIs ==
    ASSUME NEW es \in Seq(Entry), NEW p
    PROVE  /\ Removed(es, p) \in Seq(Entry)
           /\ \E g : ChosenBy(g, Removed(es, p), es, {k \in DOMAIN es : es[k].path # p})
<1> DEFINE K == {k \in DOMAIN es : es[k].path # p}
<1>1. K \subseteq 1 .. Len(es)
  OBVIOUS
<1>2. Removed(es, p) = Picked(es, K)
  BY DEF Removed
<1> HIDE DEF K
<1>3. Picked(es, K) \in Seq(Entry) /\ \E g : ChosenBy(g, Picked(es, K), es, K)
  BY ONLY <1>1, PickedIs, es \in Seq(Entry)
<1> QED BY ONLY <1>2, <1>3 DEF K

-----------------------------------------------------------------------------
\* The part of the state that the index depends on.
IndexInv ==
    /\ page \in [Pages -> AnyForm \cup {None}]
    /\ \A p \in Pages : page[p] \in Forms[p] \cup {None}
    /\ index \in Seq(Text)
    /\ DOMAIN listed \subseteq Pages
    /\ \A p \in DOMAIN listed : listed[p] \in Entry /\ listed[p].path = p

\* Paths are texts.
LEMMA PagesAreTexts == Pages \subseteq Text
<1>1. Order \in Seq(Text)
  BY ManagedFilesAssumption
<1>2. \A k \in DOMAIN Order : Order[k] \in Text
  BY ONLY <1>1
<1> QED BY <1>2 DEF Pages, ToSet

\* The entry of a page that exists.
LEMMA EntryOfTypes ==
    ASSUME NEW p \in Pages, page[p] \in Forms[p], NEW summary \in Text
    PROVE  EntryOf(p, summary) \in Entry /\ EntryOf(p, summary).path = p
<1>1. page[p] \in Form
  BY ManagedFilesAssumption
<1>2. page[p].title \in Text /\ page[p].type \in Words
  BY <1>1 DEF Form
<1>3. p \in Text
  BY PagesAreTexts
<1>4. EntryOf(p, summary) = [path |-> p, title |-> page[p].title, summary |-> summary, type |-> page[p].type]
  BY DEF EntryOf
<1> QED BY <1>2, <1>3, <1>4 DEF Entry

\* The index is read as entries.
LEMMA ReadIndexTypes == IndexInv => ReadIndex \in Seq(Entry)
BY ParseIndexIs DEF IndexInv, ReadIndex

\* The pages that `akb index --rebuild` walks.
Walked == Picked(Order, {k \in DOMAIN Order : page[Order[k]] # None})

\* The walk of `akb index --rebuild` meets every page once.
LEMMA WalkedIs ==
    /\ Walked \in Seq(Text)
    /\ \A n \in 1 .. Len(Walked) : Walked[n] \in Pages /\ page[Walked[n]] # None
    /\ \A i, j \in 1 .. Len(Walked) : Walked[i] = Walked[j] => i = j
<1> DEFINE K == {k \in DOMAIN Order : page[Order[k]] # None}
<1>1. Order \in Seq(Text) /\ \A j, k \in DOMAIN Order : Order[j] = Order[k] => j = k
  BY ManagedFilesAssumption
<1>2. DOMAIN Order = 1 .. Len(Order) /\ \A k \in 1 .. Len(Order) : Order[k] \in Pages
  BY <1>1 DEF Pages, ToSet
<1>3. K \subseteq 1 .. Len(Order) /\ \A k \in K : page[Order[k]] # None
  BY <1>2
<1>4. Walked = Picked(Order, K)
  BY DEF Walked
<1> HIDE DEF K
<1>5. Picked(Order, K) \in Seq(Text) /\ \E g : ChosenBy(g, Picked(Order, K), Order, K)
  BY ONLY <1>1, <1>3, PickedIs
<1>6. PICK g : ChosenBy(g, Walked, Order, K)
  BY <1>4, <1>5
<1>7. /\ g \in Seq(K) /\ Len(Walked) = Len(g)
      /\ \A n \in 1 .. Len(g) : g[n] \in K /\ Walked[n] = Order[g[n]]
      /\ \A i, j \in 1 .. Len(g) : i < j => g[i] < g[j]
  BY ONLY <1>6 DEF ChosenBy
<1>8. \A n \in 1 .. Len(Walked) : Walked[n] \in Pages /\ page[Walked[n]] # None
  BY ONLY <1>2, <1>3, <1>7
<1>9. \A i, j \in 1 .. Len(g) : g[i] = g[j] => i = j
  <2>1. \A n \in 1 .. Len(g) : g[n] \in Nat
    <3>1. \A k \in K : k \in 1 .. Len(Order)
      BY ONLY <1>3
    <3>2. \A n \in 1 .. Len(g) : g[n] \in 1 .. Len(Order)
      BY ONLY <1>7, <3>1
    <3> QED BY ONLY <3>2
  <2>2. \A i, j \in 1 .. Len(g) : i = j \/ i < j \/ j < i
    OBVIOUS
  <2> QED BY ONLY <1>7, <2>1, <2>2
<1>10. \A i, j \in 1 .. Len(Walked) : Walked[i] = Walked[j] => i = j
  <2> TAKE i, j \in 1 .. Len(Walked)
  <2>1. HAVE Walked[i] = Walked[j]
  <2>2. i \in 1 .. Len(g) /\ j \in 1 .. Len(g)
    BY ONLY <1>7, i \in 1 .. Len(Walked), j \in 1 .. Len(Walked)
  <2>3. Order[g[i]] = Order[g[j]] /\ g[i] \in DOMAIN Order /\ g[j] \in DOMAIN Order
    BY ONLY <1>2, <1>3, <1>7, <2>1, <2>2
  <2> QED BY ONLY <1>1, <1>9, <2>2, <2>3
<1> QED BY <1>4, <1>5, <1>8, <1>10

RebuiltEntries == [n \in DOMAIN Walked |-> EntryOf(Walked[n], page[Walked[n]].summary)]

\* The entries of a rebuild are those of the pages it walked.
LEMMA RebuiltTypes ==
    ASSUME IndexInv
    PROVE  /\ RebuiltEntries \in Seq(Entry) /\ Len(RebuiltEntries) = Len(Walked)
           /\ \A n \in 1 .. Len(Walked) :
                 RebuiltEntries[n] = EntryOf(Walked[n], page[Walked[n]].summary)
           /\ \A p \in ToSet(Walked) : /\ p \in Pages
                                      /\ EntryOf(p, page[p].summary) \in Entry
                                      /\ EntryOf(p, page[p].summary).path = p
<1>1. \A p \in Pages : page[p] # None => EntryOf(p, page[p].summary) \in Entry /\ EntryOf(p, page[p].summary).path = p
  <2> SUFFICES ASSUME NEW p \in Pages, page[p] # None
               PROVE EntryOf(p, page[p].summary) \in Entry /\ EntryOf(p, page[p].summary).path = p
    OBVIOUS
  <2>1. page[p] \in Forms[p]
    BY DEF IndexInv
  <2>2. page[p] \in Form
    BY <2>1, ManagedFilesAssumption
  <2>3. page[p].summary \in Text
    BY <2>2 DEF Form
  <2> QED BY <2>1, <2>3, EntryOfTypes
<1>2. PICK n \in Nat : n = Len(Walked) /\ DOMAIN Walked = 1 .. n
  BY WalkedIs
<1>3. RebuiltEntries = [k \in 1 .. n |-> EntryOf(Walked[k], page[Walked[k]].summary)]
  BY <1>2 DEF RebuiltEntries
<1>4. \A k \in 1 .. n : EntryOf(Walked[k], page[Walked[k]].summary) \in Entry
  BY <1>1, <1>2, WalkedIs
<1>5. RebuiltEntries \in [1 .. n -> Entry]
      /\ \A k \in 1 .. n : RebuiltEntries[k] = EntryOf(Walked[k], page[Walked[k]].summary)
  BY ONLY <1>3, <1>4
<1>6. RebuiltEntries \in Seq(Entry) /\ Len(RebuiltEntries) = n
  BY ONLY <1>5, n \in Nat
<1>7. \A p \in ToSet(Walked) : p \in Pages /\ page[p] # None
  BY <1>2, WalkedIs DEF ToSet
<1> QED BY <1>1, <1>2, <1>5, <1>6, <1>7

\* An empty index lists nothing.
LEMMA IndexInvInit == FilesInit => IndexInv /\ CleanEntriesSurvive
<1> SUFFICES ASSUME FilesInit PROVE IndexInv /\ CleanEntriesSurvive
  OBVIOUS
<1>1. index = <<>> /\ listed = <<>> /\ DOMAIN listed = {}
  BY DEF FilesInit
<1>2. IndexInv
  BY <1>1 DEF FilesInit, IndexInv
<1> QED BY <1>1, <1>2 DEF CleanEntriesSurvive

\* Says is transitive.
LEMMA SaysTwice ==
    ASSUME NEW a, NEW b, NEW c, Says(a, b), Says(b, c)
    PROVE  Says(a, c)
BY DEF Says

\* Whether an entry is clean is said by what it says.
LEMMA SaysClean ==
    ASSUME NEW a, NEW b, Says(a, b)
    PROVE  CleanEntry(a) <=> CleanEntry(b)
BY DEF Says, CleanEntry

\* What the steps that leave the index alone keep.
LEMMA IndexUntouched ==
    ASSUME IndexInv, UNCHANGED <<index, listed>>,
           page' \in [Pages -> AnyForm \cup {None}],
           \A p \in Pages : page'[p] \in Forms[p] \cup {None}
    PROVE  IndexInv' /\ (CleanEntriesSurvive => CleanEntriesSurvive')
<1>1. IndexInv'
  BY DEF IndexInv
<1>2. ReadIndex' = ReadIndex
  BY DEF ReadIndex
<1>3. CleanEntriesSurvive => CleanEntriesSurvive'
  BY <1>2 DEF CleanEntriesSurvive
<1> QED BY <1>1, <1>3

\* Writing a page or deleting it keeps the pages what they are.
LEMMA WritePageTypes ==
    ASSUME IndexInv, NEW p \in Pages, NEW f \in Forms[p] \cup {None}, page' = [page EXCEPT ![p] = f]
    PROVE  /\ page' \in [Pages -> AnyForm \cup {None}]
           /\ \A q \in Pages : page'[q] \in Forms[q] \cup {None}
<1>1. page \in [Pages -> AnyForm \cup {None}]
  BY DEF IndexInv
<1>2. \A q \in Pages : page[q] \in Forms[q] \cup {None}
  BY DEF IndexInv
<1>3. f \in AnyForm \cup {None}
  <2>1. f \in Forms[p] => f \in AnyForm
    BY DEF AnyForm
  <2> QED BY <2>1
<1>4. page' \in [Pages -> AnyForm \cup {None}]
  BY <1>1, <1>3
<1>5. \A q \in Pages : page'[q] = IF q = p THEN f ELSE page[q]
  BY <1>1
<1> QED BY <1>2, <1>4, <1>5

\* AddEntry and the rewrite of the index garble no other entry.
LEMMA IndexAddKeeps ==
    ASSUME IndexInv, CleanEntriesSurvive, NEW p \in Pages, IndexAdd(p)
    PROVE  IndexInv' /\ CleanEntriesSurvive'
<1>1. PICK summary \in Summaries :
        /\ page[p] # None
        /\ index' = RenderIndex(Added(ReadIndex, EntryOf(p, summary)))
        /\ listed' = [q \in DOMAIN listed \cup {p} |->
                        IF q = p THEN EntryOf(p, summary) ELSE listed[q]]
        /\ page' = page
  BY DEF IndexAdd
<1>2. summary \in Text
  BY ManagedFilesAssumption
<1>3. page[p] \in Forms[p]
  BY <1>1 DEF IndexInv
<1>4. PICK e \in Entry : e = EntryOf(p, summary) /\ e.path = p
  BY <1>2, <1>3, EntryOfTypes
<1>5. PICK read \in Seq(Entry) : read = ReadIndex
  BY ReadIndexTypes
<1>6. PICK es \in Seq(Entry) : es = Added(read, e)
  BY AddedIs
<1>7a. \E m : AddedAt(m, es, read, e)
  BY <1>6, AddedIs
<1>7b. PICK m : AddedAt(m, es, read, e)
  BY <1>7a
<1>7. /\ m \in 1 .. Len(es) /\ es[m] = e
      /\ \A k \in 1 .. Len(read) :
            read[k].path # e.path => k # m /\ k \in 1 .. Len(es) /\ es[k] = read[k]
  BY <1>7b DEF AddedAt
<1>8. index' = RenderIndex(es)
  BY <1>1, <1>4, <1>5, <1>6
<1>9. listed' = [q \in DOMAIN listed \cup {p} |-> IF q = p THEN e ELSE listed[q]]
  BY <1>1, <1>4
<1>10. DOMAIN listed' = DOMAIN listed \cup {p} /\ listed'[p] = e
       /\ \A q \in DOMAIN listed : q # p => listed'[q] = listed[q]
  BY <1>9
<1>11. IndexInv'
  <2>1. index' \in Seq(Text)
    BY <1>8, RenderHolds
  <2>2. DOMAIN listed' \subseteq Pages
    BY <1>10 DEF IndexInv
  <2>3. \A q \in DOMAIN listed' : listed'[q] \in Entry /\ listed'[q].path = q
    BY <1>4, <1>10 DEF IndexInv
  <2> QED BY <1>1, <2>1, <2>2, <2>3 DEF IndexInv
<1>12. ReadIndex' = ParseIndex(RenderIndex(es))
  BY <1>8 DEF ReadIndex
<1>13. ASSUME NEW q \in DOMAIN listed', CleanEntry(listed'[q])
       PROVE  \E k \in 1 .. Len(es) : Says(es[k], listed'[q])
  <2>1. CASE q = p
    <3>1. Says(es[m], listed'[q])
      BY <1>7, <1>10, <2>1 DEF Says
    <3> QED BY ONLY <1>7, <3>1
  <2>2. CASE q # p
    <3>1. q \in DOMAIN listed /\ listed'[q] = listed[q]
      BY <1>10, <2>2
    <3>2. PICK r \in ToSet(read) : Says(r, listed[q])
      BY <1>5, <1>13, <3>1 DEF CleanEntriesSurvive
    <3>3. PICK k \in 1 .. Len(read) : r = read[k]
      BY DEF ToSet
    <3>4. read[k].path = q
      BY <3>1, <3>2, <3>3 DEF Says, IndexInv
    <3>5. k \in 1 .. Len(es) /\ es[k] = read[k]
      BY <1>4, <1>7, <2>2, <3>4
    <3> QED BY <3>1, <3>2, <3>3, <3>5
  <2> QED BY <2>1, <2>2
<1>14. CleanEntriesSurvive'
  <2>1. SUFFICES ASSUME NEW q \in DOMAIN listed', CleanEntry(listed'[q])
                 PROVE  \E r \in ToSet(ReadIndex') : Says(r, listed'[q])
    BY DEF CleanEntriesSurvive
  <2>2. PICK k \in 1 .. Len(es) : Says(es[k], listed'[q])
    BY <1>13, <2>1
  <2>3. CleanEntry(es[k])
    BY <2>1, <2>2, SaysClean
  <2>4. PICK r \in ToSet(ParseIndex(RenderIndex(es))) : Says(r, es[k])
    BY <2>3, ReadBack
  <2>5. Says(r, listed'[q])
    BY <2>2, <2>4, SaysTwice
  <2> QED BY <1>12, <2>5
<1> QED BY <1>11, <1>14

\* Removing an entry garbles no other one.
LEMMA RemoveEntryKeeps ==
    ASSUME IndexInv, CleanEntriesSurvive, NEW p \in Pages, RemoveEntry(p),
           page' \in [Pages -> AnyForm \cup {None}],
           \A q \in Pages : page'[q] \in Forms[q] \cup {None}
    PROVE  IndexInv' /\ CleanEntriesSurvive'
<1>1. /\ index' = RenderIndex(Removed(ReadIndex, p))
      /\ listed' = [q \in DOMAIN listed \ {p} |-> listed[q]]
  BY DEF RemoveEntry
<1>2. PICK read \in Seq(Entry) : read = ReadIndex
  BY ReadIndexTypes
<1>3. PICK es \in Seq(Entry) : es = Removed(read, p)
  BY RemovedIs
<1> DEFINE K == {k \in DOMAIN read : read[k].path # p}
<1>4. \A k \in 1 .. Len(read) : read[k].path # p => k \in K
  OBVIOUS
<1>4a. \E g : ChosenBy(g, es, read, K)
  BY <1>3, RemovedIs
<1> HIDE DEF K
<1>5. PICK g : ChosenBy(g, es, read, K)
  BY <1>4a
<1>6. /\ Len(es) = Len(g)
      /\ \A n \in 1 .. Len(g) : g[n] \in K /\ es[n] = read[g[n]]
      /\ \A k \in K : \E i \in 1 .. Len(g) : g[i] = k
  BY ONLY <1>5 DEF ChosenBy
<1>7. DOMAIN listed' = DOMAIN listed \ {p} /\ \A q \in DOMAIN listed' : listed'[q] = listed[q]
  BY <1>1
<1>8. index' = RenderIndex(es)
  BY <1>1, <1>2, <1>3
<1>9. IndexInv'
  <2>1. index' \in Seq(Text)
    BY <1>8, RenderHolds
  <2>2. DOMAIN listed' \subseteq Pages
    BY <1>7 DEF IndexInv
  <2>3. \A q \in DOMAIN listed' : listed'[q] \in Entry /\ listed'[q].path = q
    BY <1>7 DEF IndexInv
  <2> QED BY <2>1, <2>2, <2>3 DEF IndexInv
<1>10. ReadIndex' = ParseIndex(RenderIndex(es))
  BY <1>8 DEF ReadIndex
<1>11. CleanEntriesSurvive'
  <2>1. SUFFICES ASSUME NEW q \in DOMAIN listed', CleanEntry(listed'[q])
                 PROVE  \E r \in ToSet(ReadIndex') : Says(r, listed'[q])
    BY DEF CleanEntriesSurvive
  <2>2. q \in DOMAIN listed /\ q # p /\ listed'[q] = listed[q]
    BY <1>7
  <2>3. PICK r0 \in ToSet(read) : Says(r0, listed[q])
    BY <1>2, <2>1, <2>2 DEF CleanEntriesSurvive
  <2>4. PICK k \in 1 .. Len(read) : r0 = read[k]
    BY DEF ToSet
  <2>5. read[k].path = q
    BY <2>2, <2>3, <2>4 DEF Says, IndexInv
  <2>6. PICK i \in 1 .. Len(es) : es[i] = read[k]
    <3>1. PICK i \in 1 .. Len(g) : g[i] = k
      BY <1>4, <1>6, <2>2, <2>5
    <3> QED BY <1>6, <3>1
  <2>7. Says(es[i], listed'[q])
    BY <2>2, <2>3, <2>4, <2>6
  <2>8. CleanEntry(es[i])
    BY <2>1, <2>7, SaysClean
  <2>9. PICK r \in ToSet(ParseIndex(RenderIndex(es))) : Says(r, es[i])
    BY <2>8, ReadBack
  <2>10. Says(r, listed'[q])
    BY <2>7, <2>9, SaysTwice
  <2> QED BY <1>10, <2>10
<1> QED BY <1>9, <1>11

\* The step of IndexRebuild in terms of Walked and RebuiltEntries.
LEMMA RebuildIs ==
    ASSUME IndexRebuild
    PROVE  /\ index' = RenderIndex(RebuiltEntries)
           /\ listed' = [p \in ToSet(Walked) |-> EntryOf(p, page[p].summary)]
           /\ garbled' = (\E n \in DOMAIN RebuiltEntries : ~CleanEntry(RebuiltEntries[n]))
           /\ page' = page
BY Zenon DEF IndexRebuild, Walked, RebuiltEntries

\* A rebuild lists the pages there are.
LEMMA RebuildKeeps ==
    ASSUME IndexInv, IndexRebuild
    PROVE  IndexInv' /\ CleanEntriesSurvive'
<1>1. /\ index' = RenderIndex(RebuiltEntries)
      /\ listed' = [p \in ToSet(Walked) |-> EntryOf(p, page[p].summary)]
      /\ page' = page
  BY RebuildIs
<1>2. PICK es \in Seq(Entry) : es = RebuiltEntries
  BY RebuiltTypes
<1>3. DOMAIN listed' = ToSet(Walked) /\ \A p \in ToSet(Walked) : listed'[p] = EntryOf(p, page[p].summary)
  BY <1>1
<1>4. IndexInv'
  <2>1. index' \in Seq(Text)
    BY <1>1, <1>2, RenderHolds
  <2>2. DOMAIN listed' \subseteq Pages
    BY <1>3, RebuiltTypes
  <2>3. \A p \in DOMAIN listed' : listed'[p] \in Entry /\ listed'[p].path = p
    BY <1>3, RebuiltTypes
  <2> QED BY <1>1, <2>1, <2>2, <2>3 DEF IndexInv
<1>5. ReadIndex' = ParseIndex(RenderIndex(es))
  BY <1>1, <1>2 DEF ReadIndex
<1>6. CleanEntriesSurvive'
  <2>1. SUFFICES ASSUME NEW p \in DOMAIN listed', CleanEntry(listed'[p])
                 PROVE  \E r \in ToSet(ReadIndex') : Says(r, listed'[p])
    BY DEF CleanEntriesSurvive
  <2>2. PICK n \in 1 .. Len(Walked) : Walked[n] = p
    <3>1. p \in ToSet(Walked)
      BY <1>3
    <3> QED BY <3>1, WalkedIs DEF ToSet
  <2>3. n \in 1 .. Len(es) /\ es[n] = listed'[p]
    BY <1>2, <1>3, <2>2, RebuiltTypes
  <2>4. PICK r \in ToSet(ParseIndex(RenderIndex(es))) : Says(r, es[n])
    BY <2>1, <2>3, ReadBack
  <2> QED BY <1>5, <2>3, <2>4
<1> QED BY <1>4, <1>6

\* IndexInv and CleanEntriesSurvive are inductive together.
LEMMA IndexInvNext ==
    IndexInv /\ CleanEntriesSurvive /\ [FilesNext]_filesVars => IndexInv' /\ CleanEntriesSurvive'
<1> SUFFICES ASSUME IndexInv, CleanEntriesSurvive, [FilesNext]_filesVars
             PROVE  IndexInv' /\ CleanEntriesSurvive'
  OBVIOUS
<1>t. page \in [Pages -> AnyForm \cup {None}]
      /\ \A p \in Pages : page[p] \in Forms[p] \cup {None}
  BY DEF IndexInv
<1>1. ASSUME NEW p \in Pages, WritePage(p) PROVE IndexInv' /\ CleanEntriesSurvive'
  <2>1. PICK f \in Forms[p] : page' = [page EXCEPT ![p] = f]
    BY <1>1 DEF WritePage
  <2>2. UNCHANGED <<index, listed>>
    BY <1>1 DEF WritePage
  <2> QED BY <2>1, <2>2, WritePageTypes, IndexUntouched
<1>2. ASSUME NEW p \in Pages, IndexAdd(p) PROVE IndexInv' /\ CleanEntriesSurvive'
  BY <1>2, IndexAddKeeps
<1>3. ASSUME NEW p \in Pages, IndexRemove(p) PROVE IndexInv' /\ CleanEntriesSurvive'
  <2>1. RemoveEntry(p) /\ page' = page
    BY <1>3 DEF IndexRemove
  <2> QED BY <1>t, <2>1, RemoveEntryKeeps
<1>4. ASSUME NEW p \in Pages, DeletePage(p) PROVE IndexInv' /\ CleanEntriesSurvive'
  <2>1. RemoveEntry(p) /\ page' = [page EXCEPT ![p] = None]
    BY <1>4 DEF DeletePage
  <2> QED BY <2>1, WritePageTypes, RemoveEntryKeeps
<1>5. CASE IndexRebuild
  BY <1>5, RebuildKeeps
<1>6. CASE LogAppend
  <2>1. page' = page /\ UNCHANGED <<index, listed>>
    BY <1>6 DEF LogAppend
  <2> QED BY <1>t, <2>1, IndexUntouched
<1>7. CASE UNCHANGED filesVars
  <2>1. page' = page /\ UNCHANGED <<index, listed>>
    BY <1>7 DEF filesVars
  <2> QED BY <1>t, <2>1, IndexUntouched
<1> QED BY <1>1, <1>2, <1>3, <1>4, <1>5, <1>6, <1>7 DEF FilesNext

\* An index entry without a line break, with no boundary or ")" in its path and
\* no boundary in its summary (RenderIndex, parseEntryLine) is read as it was
\* given, whatever the entries around it hold and whatever is added, removed or
\* rebuilt (cmd/akb/index.go, delete.go).
THEOREM CleanEntries == FilesSpec => []CleanEntriesSurvive
<1>1. FilesSpec => [](IndexInv /\ CleanEntriesSurvive)
  BY IndexInvInit, IndexInvNext, PTL DEF FilesSpec
<1> QED BY <1>1, PTL

\* G is the group of the entries of es at the positions q, all clean.
GroupLaid(q, G, es, t) ==
    /\ q \in Seq(1 .. Len(es)) /\ Len(G) = Len(q) + 1 /\ G[1] = <<"## ", t>>
    /\ \A n \in 1 .. Len(q) : /\ q[n] \in 1 .. Len(es) /\ es[q[n]].type = t
                             /\ G[1 + n] = EntryText(es[q[n]])
    /\ \A i, j \in 1 .. Len(q) : q[i] = q[j] => i = j

\* The groups follow one another, each under its heading.
LEMMA GroupsLaid ==
    ASSUME NEW es \in Seq(Entry), NEW t \in Words, \A k \in 1 .. Len(es) : CleanEntry(es[k])
    PROVE  \E q : GroupLaid(q, Group(es, t), es, t)
<1>1. PICK q \in Seq(1 .. Len(es)) :
              /\ Group(es, t) \in Seq(Text) /\ Len(Group(es, t)) = Len(q) + 1
              /\ Group(es, t)[1] = <<"## ", t>>
              /\ \A n \in 1 .. Len(q) : /\ q[n] \in 1 .. Len(es) /\ es[q[n]].type = t
                                       /\ Group(es, t)[1 + n] = EntryText(es[q[n]])
              /\ \A i, j \in 1 .. Len(q) : i < j => q[i] < q[j]
  BY GroupOfClean
<1>2. \A i, j \in 1 .. Len(q) : q[i] = q[j] => i = j
  <2>1. \A n \in 1 .. Len(q) : q[n] \in 1 .. Len(es)
    BY ONLY <1>1
  <2>2. \A i, j \in 1 .. Len(q) : i = j \/ i < j \/ j < i
    OBVIOUS
  <2>3. \A i, j \in 1 .. Len(q) : i < j => q[i] < q[j]
    BY ONLY <1>1
  <2>4. \A n \in 1 .. Len(q) : q[n] \in Nat
    BY ONLY <2>1
  <2> QED BY ONLY <2>2, <2>3, <2>4
<1>3. GroupLaid(q, Group(es, t), es, t)
  BY ONLY <1>1, <1>2, q \in Seq(1 .. Len(es)) DEF GroupLaid
<1> QED BY <1>3

\* The line of an entry begins with its mark.
LEMMA EntryLineBegins ==
    ASSUME NEW e \in Entry
    PROVE  EntryText(e) \in Text /\ ~Begins(EntryText(e), "## ")
<1>1. PICK T \in Nat, P \in Nat, S \in Nat : T = Len(e.title) /\ P = Len(e.path) /\ S = Len(e.summary)
  <2>1. e.title \in Seq(Words) /\ e.path \in Seq(Words) /\ e.summary \in Seq(Words)
    BY DEF Entry, Text
  <2> QED BY <2>1
<1>2. EntryText(e) \in Text /\ LaidOut(EntryText(e), e, T, P, S)
  BY <1>1, EntryLayout
<1>3. EntryText(e)[1] = "- ["
  BY <1>2 DEF LaidOut
<1>4. "- [" # "## "
  OBVIOUS
<1> QED BY <1>2, <1>3, <1>4 DEF Begins

\* Each entry of r says one entry of es, and its type in lower case.
Retold(h, r, es) ==
    /\ \A n \in 1 .. Len(r) : /\ h[n] \in 1 .. Len(es) /\ Says(r[n], es[h[n]])
                             /\ r[n].type = Lowered[es[h[n]].type]
    /\ \A m, n \in 1 .. Len(r) : h[m] = h[n] => m = n

\* parseIndex of what RenderIndex wrote for clean entries is those entries, in
\* another order and with their types in lower case.
LEMMA RoundTrip ==
    ASSUME NEW es \in Seq(Entry), \A k \in 1 .. Len(es) : CleanEntry(es[k])
    PROVE  \E h : Retold(h, ParseIndex(RenderIndex(es)), es)
<1>1. PICK g, s : Grouped(es, g, s)
  BY RenderGroups
<1>2. /\ g \in Seq(1 .. Len(es)) /\ s \in Seq(Seq(Text)) /\ Len(s) = Len(g)
      /\ RenderIndex(es) = FlattenSeq(s)
      /\ \A n \in 1 .. Len(g) : s[n] = Group(es, es[g[n]].type)
      /\ \A i, j \in 1 .. Len(g) : i # j => es[g[i]].type # es[g[j]].type
  BY <1>1 DEF Grouped
<1>f. FlattenSeq(s) \in Seq(Text) /\ \E o : Offsets(o, s, FlattenSeq(s))
  BY <1>2, FlattenIs
<1>3. PICK R \in Seq(Text) : R = RenderIndex(es) /\ R = FlattenSeq(s)
  BY ONLY <1>2, <1>f
<1>o. PICK o : Offsets(o, s, R)
  BY <1>f, <1>3
<1>4. /\ Len(R) = o[Len(s) + 1]
      /\ o \in [1 .. Len(s) + 1 -> Nat] /\ o[1] = 0
      /\ \A n \in 1 .. Len(s) : o[n + 1] = o[n] + Len(s[n])
      /\ \A n \in 1 .. Len(s), m \in Nat \ {0} : m <= Len(s[n]) => R[o[n] + m] = s[n][m]
      /\ \A n, k \in 1 .. Len(s) + 1 : n <= k => o[n] <= o[k]
      /\ \A i \in 1 .. Len(R) :
            \E n \in 1 .. Len(s), m \in Nat \ {0} : m <= Len(s[n]) /\ i = o[n] + m
  BY ONLY <1>o DEF Offsets
<1>5. PICK N \in Nat : N = Len(s) /\ N = Len(g)
  BY <1>2
<1> DEFINE T(i) == es[g[i]].type
           Q(i) == CHOOSE q : GroupLaid(q, s[i], es, T(i))
<1>6. \A i \in 1 .. N : g[i] \in 1 .. Len(es) /\ es[g[i]] \in Entry /\ T(i) \in Words
  <2> TAKE i \in 1 .. N
  <2>1. g[i] \in 1 .. Len(es) /\ es[g[i]] \in Entry
    BY <1>2, <1>5
  <2> QED BY <2>1 DEF Entry
<1>7. \A i \in 1 .. N : GroupLaid(Q(i), s[i], es, T(i))
  <2> TAKE i \in 1 .. N
  <2>1. s[i] = Group(es, T(i))
    BY <1>2, <1>5
  <2>2. \E q : GroupLaid(q, s[i], es, T(i))
    BY <1>6, <2>1, GroupsLaid
  <2> QED BY <2>2
<1>8. \A i, j \in 1 .. N : T(i) = T(j) => i = j
  BY <1>2, <1>5
<1> HIDE DEF Q, T
<1>9. \A i \in 1 .. N :
        /\ Q(i) \in Seq(1 .. Len(es)) /\ Len(s[i]) = Len(Q(i)) + 1 /\ s[i][1] = <<"## ", T(i)>>
        /\ \A n \in 1 .. Len(Q(i)) : /\ Q(i)[n] \in 1 .. Len(es) /\ es[Q(i)[n]].type = T(i)
                                    /\ s[i][1 + n] = EntryText(es[Q(i)[n]])
        /\ \A a, b \in 1 .. Len(Q(i)) : Q(i)[a] = Q(i)[b] => a = b
  BY ONLY <1>7 DEF GroupLaid
\* The k-th entry is on the line j.
<1> DEFINE Comes(j, k) == \E i \in 1 .. N : \E m \in 1 .. Len(Q(i)) : j = o[i] + 1 + m /\ k = Q(i)[m]
<1>10. \A i \in 1 .. N : o[i] \in Nat /\ Len(Q(i)) \in Nat /\ o[i + 1] = o[i] + (Len(Q(i)) + 1) /\ o[i + 1] <= Len(R)
  <2> TAKE i \in 1 .. N
  <2>1. i + 1 \in 1 .. N + 1 /\ N + 1 \in 1 .. N + 1 /\ i + 1 <= N + 1 /\ i \in 1 .. N + 1
    OBVIOUS
  <2>2. o \in [1 .. N + 1 -> Nat]
    BY ONLY <1>4, <1>5
  <2>3. o[i] \in Nat
    BY ONLY <2>1, <2>2
  <2>4. Len(Q(i)) \in Nat /\ Len(s[i]) = Len(Q(i)) + 1
    <3>1. Q(i) \in Seq(1 .. Len(es)) /\ Len(s[i]) = Len(Q(i)) + 1
      BY ONLY <1>9, i \in 1 .. N
    <3>2. Len(Q(i)) \in Nat
      BY ONLY <3>1
    <3> QED BY ONLY <3>1, <3>2
  <2>5. o[i + 1] = o[i] + Len(s[i])
    BY ONLY <1>4, <1>5, i \in 1 .. N
  <2>6. o[i + 1] <= o[N + 1] /\ Len(R) = o[N + 1]
    BY ONLY <1>4, <1>5, <2>1
  <2> QED BY ONLY <2>3, <2>4, <2>5, <2>6
\* The lines of a group.
<1>11. \A i \in 1 .. N :
         /\ R[o[i] + 1] = <<"## ", T(i)>>
         /\ \A m \in 1 .. Len(Q(i)) : R[o[i] + (1 + m)] = EntryText(es[Q(i)[m]])
  <2> TAKE i \in 1 .. N
  <2>1. i \in 1 .. Len(s)
    BY <1>5
  <2>2. PICK l \in Nat : l = Len(Q(i))
    BY <1>10
  <2>3. Len(s[i]) = l + 1
    <3>1. Len(s[i]) = Len(Q(i)) + 1
      BY ONLY <1>9, i \in 1 .. N
    <3> QED BY ONLY <2>2, <3>1
  <2>4. 1 \in Nat \ {0} /\ 1 <= Len(s[i])
    BY ONLY <2>3, l \in Nat
  <2>5. R[o[i] + 1] = s[i][1]
    BY ONLY <1>4, <2>1, <2>4
  <2>6. ASSUME NEW m \in 1 .. l PROVE R[o[i] + (1 + m)] = s[i][1 + m]
    <3>1. 1 + m \in Nat \ {0} /\ 1 + m <= Len(s[i])
      BY ONLY <2>3, l \in Nat, m \in 1 .. l
    <3> QED BY ONLY <1>4, <2>1, <3>1
  <2> QED BY ONLY <1>9, <2>2, <2>5, <2>6, i \in 1 .. N
<1>12. \A i \in 1 .. N : \A m \in 1 .. Len(Q(i)) : o[i] + (1 + m) = o[i] + 1 + m /\ o[i] + 1 + m \in 1 .. Len(R)
  <2> SUFFICES ASSUME NEW i \in 1 .. N, NEW m \in 1 .. Len(Q(i))
               PROVE  o[i] + (1 + m) = o[i] + 1 + m /\ o[i] + 1 + m \in 1 .. Len(R)
    OBVIOUS
  <2>1. PICK a \in Nat, l \in Nat, L \in Nat : a = o[i] /\ l = Len(Q(i)) /\ L = Len(R)
    <3>1. o[i] \in Nat /\ Len(Q(i)) \in Nat
      BY ONLY <1>10, i \in 1 .. N
    <3>2. Len(R) \in Nat
      OBVIOUS
    <3> QED BY ONLY <3>1, <3>2
  <2>2. o[i + 1] = a + (l + 1) /\ o[i + 1] <= L
    BY ONLY <1>10, <2>1, i \in 1 .. N
  <2>3. a + (l + 1) <= L
    BY ONLY <2>2
  <2>4. m \in 1 .. l
    BY <2>1
  <2>5. a + (1 + m) = a + 1 + m /\ a + 1 + m \in 1 .. L
    BY ONLY <2>3, <2>4, a \in Nat, l \in Nat, L \in Nat
  <2> QED BY ONLY <2>1, <2>5
<1>13. \A j \in 1 .. Len(R) : IsEntry(R[j]) => \E k \in 1 .. Len(es) : Comes(j, k)
  <2> SUFFICES ASSUME NEW j \in 1 .. Len(R), IsEntry(R[j]) PROVE \E k \in 1 .. Len(es) : Comes(j, k)
    OBVIOUS
  <2>1. PICK i \in 1 .. N, m \in Nat \ {0} : m <= Len(s[i]) /\ j = o[i] + m
    BY ONLY <1>4, <1>5, j \in 1 .. Len(R)
  <2>2. m # 1
    <3>1. ASSUME m = 1 PROVE FALSE
      <4>1. R[j] = <<"## ", T(i)>>
        BY <1>11, <2>1, <3>1
      <4> QED BY <1>6, <4>1, HeadingLine
    <3> QED BY <3>1
  <2>3. PICK l \in Nat : l = Len(Q(i)) /\ Len(s[i]) = l + 1
    BY <1>9, <1>10
  <2>4. PICK n \in 1 .. l : m = 1 + n
    <3>1. m - 1 \in 1 .. l /\ m = 1 + (m - 1)
      BY ONLY <2>1, <2>2, <2>3, l \in Nat, m \in Nat \ {0}
    <3> QED BY ONLY <3>1
  <2>5. n \in 1 .. Len(Q(i)) /\ j = o[i] + 1 + n
    BY <1>12, <2>1, <2>3, <2>4
  <2>6. Comes(j, Q(i)[n]) /\ Q(i)[n] \in 1 .. Len(es)
    BY <1>9, <2>5
  <2> QED BY ONLY <2>6
<1>14. ASSUME NEW j, NEW k, Comes(j, k)
       PROVE  /\ j \in 1 .. Len(R) /\ k \in 1 .. Len(es) /\ R[j] = EntryText(es[k])
              /\ TypeAt(R, j) = Lowered[es[k].type]
  <2>0. PICK i \in 1 .. N : \E m \in 1 .. Len(Q(i)) : j = o[i] + 1 + m /\ k = Q(i)[m]
    BY <1>14
  <2>1. PICK m \in 1 .. Len(Q(i)) : j = o[i] + 1 + m /\ k = Q(i)[m]
    BY <2>0
  <2>2. j \in 1 .. Len(R) /\ j = o[i] + (1 + m)
    BY <1>12, <2>1
  <2>3. R[j] = EntryText(es[k])
    BY <1>11, <2>1, <2>2
  <2>4. k \in 1 .. Len(es) /\ es[k].type = T(i)
    BY <1>9, <2>1
  <2>5. PICK a \in Nat, l \in Nat : a = o[i] /\ l = Len(Q(i))
    BY <1>10
  <2>6. j = a + 1 + m /\ m \in 1 .. l
    BY <2>1, <2>5
  <2>7. a + 1 \in 1 .. j /\ a + 1 \in 1 .. Len(R)
    BY ONLY <2>2, <2>6, a \in Nat, l \in Nat
  <2>8. R[a + 1] = <<"## ", T(i)>>
    BY <1>11, <2>5
  <2>9. T(i) \in Words
    BY <1>6
  <2>10. Begins(R[a + 1], "## ") /\ HeadingType(R[a + 1]) = T(i)
    BY <2>8, <2>9, HeadingLine
  <2>11. a + 1 \in Headings(R, j)
    BY <2>7, <2>10 DEF Headings
  <2>12. \A x \in Headings(R, j) : x <= a + 1
    <3>1. SUFFICES ASSUME NEW x \in 1 .. j, Begins(R[x], "## "), ~(x <= a + 1) PROVE FALSE
      BY DEF Headings
    <3>2. PICK n \in 1 .. l : x = a + (1 + n)
      <4>1. x - a - 1 \in 1 .. l /\ x = a + (1 + (x - a - 1))
        <5>1. ~(x <= a + 1)
          BY ONLY <3>1
        <5>2. j = a + 1 + m /\ m \in 1 .. l /\ x \in 1 .. j
          BY ONLY <2>6, x \in 1 .. j
        <5> QED BY ONLY <5>1, <5>2, a \in Nat, l \in Nat
      <4> QED BY ONLY <4>1
    <3>3. R[x] = EntryText(es[Q(i)[n]]) /\ Q(i)[n] \in 1 .. Len(es)
      BY <1>9, <1>11, <2>5, <3>2
    <3>4. es[Q(i)[n]] \in Entry
      BY <3>3
    <3> QED BY <3>1, <3>3, <3>4, EntryLineBegins
  <2>13. TypeAt(R, j) = Lowered[HeadingType(R[a + 1])]
    BY ONLY <2>2, <2>11, <2>12, TypeAtIs, R \in Seq(Text)
  <2> QED BY ONLY <2>2, <2>3, <2>4, <2>10, <2>13
<1>15. ASSUME NEW j1, NEW j2, NEW k, Comes(j1, k), Comes(j2, k)
       PROVE  j1 = j2
  <2>a. PICK i \in 1 .. N : \E m \in 1 .. Len(Q(i)) : j1 = o[i] + 1 + m /\ k = Q(i)[m]
    BY <1>15
  <2>1. PICK m \in 1 .. Len(Q(i)) : j1 = o[i] + 1 + m /\ k = Q(i)[m]
    BY <2>a
  <2>b. PICK i2 \in 1 .. N : \E m2 \in 1 .. Len(Q(i2)) : j2 = o[i2] + 1 + m2 /\ k = Q(i2)[m2]
    BY <1>15
  <2>2. PICK m2 \in 1 .. Len(Q(i2)) : j2 = o[i2] + 1 + m2 /\ k = Q(i2)[m2]
    BY <2>b
  <2>3. es[k].type = T(i) /\ es[k].type = T(i2)
    BY <1>9, <2>1, <2>2
  <2>4. i = i2
    BY <1>8, <2>3
  <2>5. m = m2
    <3>1. m \in 1 .. Len(Q(i)) /\ m2 \in 1 .. Len(Q(i)) /\ Q(i)[m] = Q(i)[m2]
      BY ONLY <2>1, <2>2, <2>4, m \in 1 .. Len(Q(i)), m2 \in 1 .. Len(Q(i2))
    <3> QED BY ONLY <1>9, <3>1, i \in 1 .. N
  <2> QED BY ONLY <2>1, <2>2, <2>4, <2>5
<1>16. PICK gp \in Seq(1 .. Len(R)) :
              /\ ParseIndex(R) \in Seq(Entry) /\ Len(ParseIndex(R)) = Len(gp)
              /\ \A n \in 1 .. Len(gp) :
                    /\ gp[n] \in 1 .. Len(R) /\ IsEntry(R[gp[n]])
                    /\ ParseIndex(R)[n] = ParseEntryLine(R[gp[n]], TypeAt(R, gp[n]))
              /\ \A i1, i2 \in 1 .. Len(gp) : i1 < i2 => gp[i1] < gp[i2]
              /\ \A m \in 1 .. Len(R) : IsEntry(R[m]) => \E i \in 1 .. Len(gp) : gp[i] = m
  BY ParseIndexIs
<1> HIDE DEF Comes
<1> DEFINE H(n) == CHOOSE k \in 1 .. Len(es) : Comes(gp[n], k)
           h == [n \in 1 .. Len(gp) |-> H(n)]
<1>17. \A n \in 1 .. Len(gp) : H(n) \in 1 .. Len(es) /\ Comes(gp[n], H(n))
  <2> TAKE n \in 1 .. Len(gp)
  <2>1. \E k \in 1 .. Len(es) : Comes(gp[n], k)
    BY <1>13, <1>16
  <2> QED BY <2>1
<1> HIDE DEF H
<1>18. \A n \in 1 .. Len(gp) : h[n] = H(n)
  OBVIOUS
<1> HIDE DEF h
<1>19. PICK r \in Seq(Entry) : r = ParseIndex(R)
  BY <1>16
<1>20. ASSUME NEW n \in 1 .. Len(r)
       PROVE  /\ h[n] \in 1 .. Len(es) /\ Says(r[n], es[h[n]])
              /\ r[n].type = Lowered[es[h[n]].type]
  <2>1. n \in 1 .. Len(gp)
    BY <1>16, <1>19
  <2>2. PICK k \in 1 .. Len(es) : k = h[n] /\ Comes(gp[n], k)
    BY <1>17, <1>18, <2>1
  <2>3. R[gp[n]] = EntryText(es[k]) /\ TypeAt(R, gp[n]) = Lowered[es[k].type]
    BY <1>14, <2>2
  <2>4. r[n] = ParseEntryLine(EntryText(es[k]), Lowered[es[k].type])
    BY <1>16, <1>19, <2>1, <2>3
  <2>5. es[k] \in Entry /\ CleanEntry(es[k])
    OBVIOUS
  <2>6. Says(r[n], es[k]) /\ r[n].type = Lowered[es[k].type]
    BY <2>4, <2>5, EntryLine
  <2> QED BY ONLY <2>2, <2>6
<1>21. ASSUME NEW m \in 1 .. Len(r), NEW n \in 1 .. Len(r), h[m] = h[n] PROVE m = n
  <2>1. m \in 1 .. Len(gp) /\ n \in 1 .. Len(gp)
    BY <1>16, <1>19
  <2>2. gp[m] = gp[n]
    BY <1>15, <1>17, <1>18, <1>21, <2>1
  <2>3. gp[m] \in Nat /\ (m = n \/ m < n \/ n < m)
    BY <1>16, <2>1
  <2> QED BY ONLY <1>16, <2>1, <2>2, <2>3
<1>22. Retold(h, r, es)
  BY <1>20, <1>21 DEF Retold
<1> QED BY <1>3, <1>19, <1>22

\* es lists, once each, entries that f holds, all clean.
Lists(es, f) ==
    /\ \A k \in 1 .. Len(es) : /\ CleanEntry(es[k]) /\ es[k].path \in DOMAIN f
                              /\ Says(es[k], f[es[k].path])
                              /\ Lowered[es[k].type] = Lowered[f[es[k].path].type]
    /\ \A m, n \in 1 .. Len(es) : es[m].path = es[n].path => m = n

InLower(es, f) == \A k \in 1 .. Len(es) : es[k].type = Lowered[f[es[k].path].type]

\* So the index lists what the entries listed.
LEMMA ListsBack ==
    ASSUME NEW es \in Seq(Entry), NEW f, \A p \in DOMAIN f : f[p] \in Entry, Lists(es, f),
           NEW r \in Seq(Entry), r = ParseIndex(RenderIndex(es))
    PROVE  Lists(r, f) /\ InLower(r, f)
<1>1. /\ \A k \in 1 .. Len(es) : /\ CleanEntry(es[k]) /\ es[k].path \in DOMAIN f
                                /\ Says(es[k], f[es[k].path])
                                /\ Lowered[es[k].type] = Lowered[f[es[k].path].type]
      /\ \A m, n \in 1 .. Len(es) : es[m].path = es[n].path => m = n
  BY DEF Lists
<1>1a. \E h : Retold(h, r, es)
  BY <1>1, RoundTrip
<1>2. PICK h : Retold(h, r, es)
  BY <1>1a
<1>3. /\ \A n \in 1 .. Len(r) : /\ h[n] \in 1 .. Len(es) /\ Says(r[n], es[h[n]])
                               /\ r[n].type = Lowered[es[h[n]].type]
      /\ \A m, n \in 1 .. Len(r) : h[m] = h[n] => m = n
  BY <1>2 DEF Retold
<1>4. ASSUME NEW n \in 1 .. Len(r)
      PROVE  /\ CleanEntry(r[n]) /\ r[n].path \in DOMAIN f /\ Says(r[n], f[r[n].path])
             /\ r[n].type = Lowered[f[r[n].path].type]
             /\ Lowered[r[n].type] = Lowered[f[r[n].path].type]
  <2>1. PICK k \in 1 .. Len(es) : k = h[n] /\ Says(r[n], es[k]) /\ r[n].type = Lowered[es[k].type]
    BY <1>3
  <2>2. r[n].path = es[k].path
    BY <2>1 DEF Says
  <2>3. CleanEntry(es[k]) /\ es[k].path \in DOMAIN f /\ Says(es[k], f[es[k].path])
        /\ Lowered[es[k].type] = Lowered[f[es[k].path].type]
    BY <1>1
  <2>4. CleanEntry(r[n])
    BY <2>1, <2>3, SaysClean
  <2>5. Says(r[n], f[r[n].path])
    BY <2>1, <2>2, <2>3, SaysTwice
  <2>6. r[n].type = Lowered[f[r[n].path].type]
    BY <2>1, <2>2, <2>3
  <2>7. f[r[n].path].type \in Words
    <3>1. f[r[n].path] \in Entry
      BY <2>2, <2>3
    <3> QED BY <3>1 DEF Entry
  <2>8. Lowered[Lowered[f[r[n].path].type]] = Lowered[f[r[n].path].type]
    BY <2>7, ManagedFilesAssumption
  <2> QED BY ONLY <2>2, <2>3, <2>4, <2>5, <2>6, <2>8
<1>5. ASSUME NEW m \in 1 .. Len(r), NEW n \in 1 .. Len(r), r[m].path = r[n].path PROVE m = n
  <2>1. h[m] \in 1 .. Len(es) /\ h[n] \in 1 .. Len(es) /\ Says(r[m], es[h[m]]) /\ Says(r[n], es[h[n]])
    BY <1>3
  <2>2. es[h[m]].path = es[h[n]].path
    BY <1>5, <2>1 DEF Says
  <2>3. h[m] = h[n]
    BY <1>1, <2>1, <2>2
  <2> QED BY <1>3, <2>3
<1> QED BY <1>4, <1>5 DEF Lists, InLower

-----------------------------------------------------------------------------
\* While nothing garbled is listed, the index reads as it was listed.
TellsInv ==
    ~garbled => /\ \A p \in DOMAIN listed : CleanEntry(listed[p])
                /\ Lists(ReadIndex, listed)
                /\ InLower(ReadIndex, listed)

\* An empty index tells that nothing was added.
LEMMA TellsInit == FilesInit => TellsInv
<1> SUFFICES ASSUME FilesInit PROVE TellsInv
  OBVIOUS
<1>1. index = <<>> /\ listed = <<>> /\ DOMAIN listed = {}
  BY DEF FilesInit
<1>0. <<>> \in Seq(Text) /\ Len(<<>>) = 0
  OBVIOUS
<1>2. PICK lines \in Seq(Text) : lines = <<>> /\ Len(lines) = 0
  BY ONLY <1>0
<1>3. PICK gp \in Seq(1 .. Len(lines)) :
              /\ ParseIndex(lines) \in Seq(Entry) /\ Len(ParseIndex(lines)) = Len(gp)
              /\ \A n \in 1 .. Len(gp) :
                    /\ gp[n] \in 1 .. Len(lines) /\ IsEntry(lines[gp[n]])
                    /\ ParseIndex(lines)[n] = ParseEntryLine(lines[gp[n]], TypeAt(lines, gp[n]))
              /\ \A i, j \in 1 .. Len(gp) : i < j => gp[i] < gp[j]
              /\ \A k \in 1 .. Len(lines) : IsEntry(lines[k]) => \E i \in 1 .. Len(gp) : gp[i] = k
  BY ParseIndexIs
<1>4. \A n \in 1 .. Len(gp) : FALSE
  <2>1. \A n \in 1 .. Len(gp) : gp[n] \in 1 .. 0
    BY ONLY <1>2, <1>3
  <2> QED BY ONLY <2>1
<1>5. ReadIndex = ParseIndex(lines)
  BY <1>1, <1>2 DEF ReadIndex
<1>6. \A n \in 1 .. Len(ReadIndex) : FALSE
  BY ONLY <1>3, <1>4, <1>5
<1> QED BY <1>1, <1>6 DEF TellsInv, Lists, InLower

\* The commands that leave the index alone.
LEMMA TellsUntouched ==
    ASSUME TellsInv, UNCHANGED <<index, listed, garbled>>
    PROVE  TellsInv'
<1>1. ReadIndex' = ReadIndex
  BY DEF ReadIndex
<1> QED BY <1>1 DEF TellsInv, Lists, InLower

\* AddEntry and the rewrite of the index.
LEMMA TellsAdd ==
    ASSUME IndexInv, IndexInv', TellsInv, NEW p \in Pages, IndexAdd(p)
    PROVE  TellsInv'
<1>1. PICK summary \in Summaries :
        /\ page[p] # None
        /\ index' = RenderIndex(Added(ReadIndex, EntryOf(p, summary)))
        /\ listed' = [q \in DOMAIN listed \cup {p} |->
                        IF q = p THEN EntryOf(p, summary) ELSE listed[q]]
        /\ garbled' = (garbled \/ ~CleanEntry(EntryOf(p, summary)))
  BY DEF IndexAdd
<1>2. summary \in Text /\ page[p] \in Forms[p]
  BY <1>1, ManagedFilesAssumption DEF IndexInv
<1>3. PICK e \in Entry : e = EntryOf(p, summary) /\ e.path = p
  BY <1>2, EntryOfTypes
<1>4. SUFFICES ASSUME ~garbled' PROVE TellsInv'
  BY DEF TellsInv
<1>5. ~garbled /\ CleanEntry(e)
  BY <1>1, <1>3, <1>4
<1>6. PICK read \in Seq(Entry) : read = ReadIndex
  BY ReadIndexTypes
<1>7. PICK es \in Seq(Entry) : es = Added(read, e)
  BY AddedIs
<1>8a. \E m : AddedAt(m, es, read, e)
  BY <1>7, AddedIs
<1>8b. PICK m : AddedAt(m, es, read, e)
  BY <1>8a
<1>8. /\ m \in 1 .. Len(es) /\ es[m] = e
      /\ \A k \in 1 .. Len(es) : k # m => k \in 1 .. Len(read) /\ es[k] = read[k]
      /\ m \in 1 .. Len(read) => read[m].path = e.path
      /\ m \notin 1 .. Len(read) => \A k \in 1 .. Len(read) : read[k].path # e.path
  BY <1>8b DEF AddedAt
<1>9. DOMAIN listed' = DOMAIN listed \cup {p} /\ listed'[p] = e
      /\ \A q \in DOMAIN listed : q # p => listed'[q] = listed[q]
  BY <1>1, <1>3
<1>10. /\ \A k \in 1 .. Len(read) : /\ CleanEntry(read[k]) /\ read[k].path \in DOMAIN listed
                                   /\ Says(read[k], listed[read[k].path])
                                   /\ Lowered[read[k].type] = Lowered[listed[read[k].path].type]
       /\ \A i, n \in 1 .. Len(read) : read[i].path = read[n].path => i = n
  BY <1>5, <1>6 DEF TellsInv, Lists
<1>11. ASSUME NEW k \in 1 .. Len(es), k # m
       PROVE  k \in 1 .. Len(read) /\ es[k] = read[k] /\ es[k].path # p
  <2>1. k \in 1 .. Len(read) /\ es[k] = read[k]
    BY <1>8, <1>11
  <2>2. ASSUME read[k].path = p PROVE FALSE
    <3>1. m \in 1 .. Len(read) /\ read[m].path = p
      BY <1>3, <1>8, <2>1, <2>2
    <3> QED BY <1>10, <1>11, <2>1, <2>2, <3>1
  <2> QED BY <2>1, <2>2
<1>12. Lists(es, listed')
  <2>1. ASSUME NEW k \in 1 .. Len(es)
        PROVE  /\ CleanEntry(es[k]) /\ es[k].path \in DOMAIN listed'
               /\ Says(es[k], listed'[es[k].path])
               /\ Lowered[es[k].type] = Lowered[listed'[es[k].path].type]
    <3>1. CASE k = m
      BY <1>3, <1>5, <1>8, <1>9, <3>1 DEF Says
    <3>2. CASE k # m
      <4>1. k \in 1 .. Len(read) /\ es[k] = read[k] /\ es[k].path # p
        BY <1>11, <3>2
      <4>2. es[k].path \in DOMAIN listed /\ listed'[es[k].path] = listed[es[k].path]
        BY <1>9, <1>10, <4>1
      <4> QED BY <1>9, <1>10, <4>1, <4>2
    <3> QED BY <3>1, <3>2
  <2>2. ASSUME NEW i \in 1 .. Len(es), NEW n \in 1 .. Len(es), es[i].path = es[n].path PROVE i = n
    <3>1. CASE i = m
      BY <1>3, <1>8, <1>11, <2>2, <3>1
    <3>2. CASE n = m
      BY <1>3, <1>8, <1>11, <2>2, <3>2
    <3>3. CASE i # m /\ n # m
      BY <1>10, <1>11, <2>2, <3>3
    <3> QED BY <3>1, <3>2, <3>3
  <2> QED BY <2>1, <2>2 DEF Lists
<1>13. ReadIndex' = ParseIndex(RenderIndex(es)) /\ ReadIndex' \in Seq(Entry)
  <2>1. ReadIndex' = ParseIndex(RenderIndex(es))
    BY <1>1, <1>3, <1>6, <1>7 DEF ReadIndex
  <2>2. RenderIndex(es) \in Seq(Text)
    BY RenderHolds
  <2> QED BY <2>1, <2>2, ParseIndexIs
<1>14. \A q \in DOMAIN listed' : listed'[q] \in Entry
  BY DEF IndexInv
<1>15. PICK f : f = listed'
  OBVIOUS
<1>15a. PICK r \in Seq(Entry) : r = ReadIndex'
  BY <1>13
<1>16. Lists(r, f) /\ InLower(r, f)
  BY <1>12, <1>13, <1>14, <1>15, <1>15a, ListsBack
<1>17. Lists(ReadIndex, listed)' /\ InLower(ReadIndex, listed)'
  BY <1>15, <1>15a, <1>16 DEF Lists, InLower
<1>18. \A q \in DOMAIN listed' : CleanEntry(listed'[q])
  BY <1>5, <1>9 DEF TellsInv
<1> QED BY <1>17, <1>18 DEF TellsInv

\* RemoveEntry and the rewrite of the index.
LEMMA TellsRemove ==
    ASSUME IndexInv, IndexInv', TellsInv, NEW p \in Pages, RemoveEntry(p)
    PROVE  TellsInv'
<1>1. /\ index' = RenderIndex(Removed(ReadIndex, p))
      /\ listed' = [q \in DOMAIN listed \ {p} |-> listed[q]]
      /\ garbled' = garbled
  BY DEF RemoveEntry
<1>2. SUFFICES ASSUME ~garbled PROVE TellsInv'
  BY <1>1 DEF TellsInv
<1>3. PICK read \in Seq(Entry) : read = ReadIndex
  BY ReadIndexTypes
<1>4. PICK es \in Seq(Entry) : es = Removed(read, p)
  BY RemovedIs
<1> DEFINE K == {k \in DOMAIN read : read[k].path # p}
<1>5. \A k \in K : k \in 1 .. Len(read) /\ read[k].path # p
  OBVIOUS
<1>5a. \E g : ChosenBy(g, es, read, K)
  BY <1>4, RemovedIs
<1> HIDE DEF K
<1>6. PICK g : ChosenBy(g, es, read, K)
  BY <1>5a
<1>7. /\ Len(es) = Len(g) /\ g \in Seq(K)
      /\ \A n \in 1 .. Len(g) : g[n] \in K /\ es[n] = read[g[n]]
      /\ \A i, j \in 1 .. Len(g) : i < j => g[i] < g[j]
  BY ONLY <1>6 DEF ChosenBy
<1>8. DOMAIN listed' = DOMAIN listed \ {p} /\ \A q \in DOMAIN listed' : listed'[q] = listed[q]
  BY <1>1
<1>9. /\ \A k \in 1 .. Len(read) : /\ CleanEntry(read[k]) /\ read[k].path \in DOMAIN listed
                                   /\ Says(read[k], listed[read[k].path])
                                   /\ Lowered[read[k].type] = Lowered[listed[read[k].path].type]
      /\ \A i, n \in 1 .. Len(read) : read[i].path = read[n].path => i = n
  BY <1>2, <1>3 DEF TellsInv, Lists
<1>10. \A n \in 1 .. Len(es) : g[n] \in 1 .. Len(read) /\ es[n] = read[g[n]] /\ es[n].path # p
  BY ONLY <1>5, <1>7
<1>11. Lists(es, listed')
  <2>1. ASSUME NEW n \in 1 .. Len(es)
        PROVE  /\ CleanEntry(es[n]) /\ es[n].path \in DOMAIN listed'
               /\ Says(es[n], listed'[es[n].path])
               /\ Lowered[es[n].type] = Lowered[listed'[es[n].path].type]
    BY <1>8, <1>9, <1>10
  <2>2. ASSUME NEW i \in 1 .. Len(es), NEW n \in 1 .. Len(es), es[i].path = es[n].path PROVE i = n
    <3>0. g[i] \in 1 .. Len(read) /\ g[n] \in 1 .. Len(read) /\ read[g[i]].path = read[g[n]].path
      BY ONLY <1>10, <2>2
    <3>0a. \A j, m \in 1 .. Len(read) : read[j].path = read[m].path => j = m
      BY <1>9
    <3>1. g[i] = g[n] /\ g[i] \in Nat
      <4>1. g[i] = g[n]
        BY ONLY <3>0, <3>0a
      <4>2. g[i] \in Nat
        BY ONLY <3>0
      <4> QED BY <4>1, <4>2
    <3>2. i \in 1 .. Len(g) /\ n \in 1 .. Len(g) /\ (i = n \/ i < n \/ n < i)
      BY <1>7
    <3> QED BY ONLY <1>7, <3>1, <3>2
  <2> QED BY <2>1, <2>2 DEF Lists
<1>13. ReadIndex' = ParseIndex(RenderIndex(es)) /\ ReadIndex' \in Seq(Entry)
  <2>1. ReadIndex' = ParseIndex(RenderIndex(es))
    BY <1>1, <1>3, <1>4 DEF ReadIndex
  <2>2. RenderIndex(es) \in Seq(Text)
    BY RenderHolds
  <2> QED BY <2>1, <2>2, ParseIndexIs
<1>14. \A q \in DOMAIN listed' : listed'[q] \in Entry
  BY DEF IndexInv
<1>15. PICK f : f = listed'
  OBVIOUS
<1>15a. PICK r \in Seq(Entry) : r = ReadIndex'
  BY <1>13
<1>16. Lists(r, f) /\ InLower(r, f)
  BY <1>11, <1>13, <1>14, <1>15, <1>15a, ListsBack
<1>17. Lists(ReadIndex, listed)' /\ InLower(ReadIndex, listed)'
  BY <1>15, <1>15a, <1>16 DEF Lists, InLower
<1>18. \A q \in DOMAIN listed' : CleanEntry(listed'[q])
  BY <1>2, <1>8 DEF TellsInv
<1> QED BY <1>17, <1>18 DEF TellsInv

\* RebuildIndex.
LEMMA TellsRebuild ==
    ASSUME IndexInv, IndexInv', IndexRebuild
    PROVE  TellsInv'
<1>1. /\ index' = RenderIndex(RebuiltEntries)
      /\ listed' = [p \in ToSet(Walked) |-> EntryOf(p, page[p].summary)]
      /\ garbled' = (\E n \in DOMAIN RebuiltEntries : ~CleanEntry(RebuiltEntries[n]))
  BY RebuildIs
<1>2. SUFFICES ASSUME ~garbled' PROVE TellsInv'
  BY DEF TellsInv
<1>3. PICK es \in Seq(Entry) : es = RebuiltEntries
  BY RebuiltTypes
<1>4. \A k \in 1 .. Len(es) : CleanEntry(es[k])
  BY <1>1, <1>2, <1>3
<1>5. DOMAIN listed' = ToSet(Walked) /\ \A p \in ToSet(Walked) : listed'[p] = EntryOf(p, page[p].summary)
  BY <1>1
<1>6. \A k \in 1 .. Len(es) : k \in 1 .. Len(Walked) /\ Walked[k] \in ToSet(Walked)
                              /\ es[k].path = Walked[k] /\ listed'[Walked[k]] = es[k]
  <2> TAKE k \in 1 .. Len(es)
  <2>1. k \in 1 .. Len(Walked) /\ es[k] = EntryOf(Walked[k], page[Walked[k]].summary)
    BY <1>3, RebuiltTypes
  <2>2. Walked[k] \in ToSet(Walked)
    BY <2>1, WalkedIs DEF ToSet
  <2> QED BY <1>5, <2>1, <2>2, RebuiltTypes
<1>7. Lists(es, listed')
  <2>1. ASSUME NEW k \in 1 .. Len(es)
        PROVE  /\ CleanEntry(es[k]) /\ es[k].path \in DOMAIN listed'
               /\ Says(es[k], listed'[es[k].path])
               /\ Lowered[es[k].type] = Lowered[listed'[es[k].path].type]
    BY <1>4, <1>5, <1>6 DEF Says
  <2>2. ASSUME NEW i \in 1 .. Len(es), NEW n \in 1 .. Len(es), es[i].path = es[n].path PROVE i = n
    BY <1>6, <2>2, WalkedIs
  <2> QED BY <2>1, <2>2 DEF Lists
<1>13. ReadIndex' = ParseIndex(RenderIndex(es)) /\ ReadIndex' \in Seq(Entry)
  <2>1. ReadIndex' = ParseIndex(RenderIndex(es))
    BY <1>1, <1>3 DEF ReadIndex
  <2>2. RenderIndex(es) \in Seq(Text)
    BY RenderHolds
  <2> QED BY <2>1, <2>2, ParseIndexIs
<1>14. \A q \in DOMAIN listed' : listed'[q] \in Entry
  BY DEF IndexInv
<1>15. PICK f : f = listed'
  OBVIOUS
<1>15a. PICK r \in Seq(Entry) : r = ReadIndex'
  BY <1>13
<1>16. Lists(r, f) /\ InLower(r, f)
  BY <1>7, <1>13, <1>14, <1>15, <1>15a, ListsBack
<1>17. Lists(ReadIndex, listed)' /\ InLower(ReadIndex, listed)'
  BY <1>15, <1>15a, <1>16 DEF Lists, InLower
<1>18. \A q \in DOMAIN listed' : CleanEntry(listed'[q])
  <2> TAKE q \in DOMAIN listed'
  <2>1. PICK k \in 1 .. Len(Walked) : q = Walked[k]
    BY <1>5, WalkedIs DEF ToSet
  <2>2. k \in 1 .. Len(es)
    BY <1>3, <2>1, RebuiltTypes
  <2> QED BY <1>4, <1>6, <2>1, <2>2
<1> QED BY <1>17, <1>18 DEF TellsInv

\* No step breaks TellsInv.
LEMMA TellsNext ==
    IndexInv /\ IndexInv' /\ TellsInv /\ [FilesNext]_filesVars => TellsInv'
<1> SUFFICES ASSUME IndexInv, IndexInv', TellsInv, [FilesNext]_filesVars PROVE TellsInv'
  OBVIOUS
<1>1. ASSUME NEW p \in Pages, WritePage(p) PROVE TellsInv'
  BY <1>1, TellsUntouched DEF WritePage
<1>2. ASSUME NEW p \in Pages, IndexAdd(p) PROVE TellsInv'
  BY <1>2, TellsAdd
<1>3. ASSUME NEW p \in Pages, IndexRemove(p) PROVE TellsInv'
  BY <1>3, TellsRemove DEF IndexRemove
<1>4. ASSUME NEW p \in Pages, DeletePage(p) PROVE TellsInv'
  BY <1>4, TellsRemove DEF DeletePage
<1>5. CASE IndexRebuild
  BY <1>5, TellsRebuild
<1>6. CASE LogAppend
  BY <1>6, TellsUntouched DEF LogAppend
<1>7. CASE UNCHANGED filesVars
  BY <1>7, TellsUntouched DEF filesVars
<1> QED BY <1>1, <1>2, <1>3, <1>4, <1>5, <1>6, <1>7 DEF FilesNext

\* A bijection from the entries read to the paths listed.
LEMMA Told ==
    IndexInv /\ CleanEntriesSurvive /\ TellsInv => IndexTellsWhatWasAdded
<1> SUFFICES ASSUME IndexInv, CleanEntriesSurvive, TellsInv, ~garbled
             PROVE  LET read == ReadIndex IN
                    /\ Len(read) = Cardinality(DOMAIN listed)
                    /\ \A e \in ToSet(read) : /\ e.path \in DOMAIN listed
                                             /\ Says(e, listed[e.path])
                                             /\ e.type = Lowered[listed[e.path].type]
  BY DEF IndexTellsWhatWasAdded
<1>1. PICK read \in Seq(Entry) : read = ReadIndex
  BY ReadIndexTypes
<1>2. /\ \A p \in DOMAIN listed : CleanEntry(listed[p])
      /\ \A k \in 1 .. Len(read) : /\ read[k].path \in DOMAIN listed
                                   /\ Says(read[k], listed[read[k].path])
                                   /\ read[k].type = Lowered[listed[read[k].path].type]
      /\ \A i, n \in 1 .. Len(read) : read[i].path = read[n].path => i = n
  BY <1>1 DEF TellsInv, Lists, InLower
<1>3. \A e \in ToSet(read) : /\ e.path \in DOMAIN listed
                            /\ Says(e, listed[e.path])
                            /\ e.type = Lowered[listed[e.path].type]
  BY <1>2 DEF ToSet
<1>4. PICK n \in Nat : n = Len(read)
  OBVIOUS
<1> DEFINE D == DOMAIN listed
           f == [k \in 1 .. n |-> read[k].path]
<1>5. f \in [1 .. n -> D] /\ \A i, j \in 1 .. n : f[i] = f[j] => i = j
  BY <1>2, <1>4
<1>6. \A p \in D : \E k \in 1 .. n : f[k] = p
  <2> TAKE p \in D
  <2>1. PICK e \in ToSet(read) : Says(e, listed[p])
    BY <1>1, <1>2 DEF CleanEntriesSurvive
  <2>2. PICK k \in 1 .. n : e = read[k]
    BY <1>4 DEF ToSet
  <2>3. read[k].path = p
    BY <2>1, <2>2 DEF Says, IndexInv
  <2> QED BY <2>3
<1> HIDE DEF f, D
<1>7. f \in Bijection(1 .. n, D)
  BY <1>5, <1>6 DEF Bijection, Injection, Surjection, IsInjective
<1>8. ExistsBijection(1 .. n, D)
  BY <1>7 DEF ExistsBijection
<1>9. IsFiniteSet(1 .. n) /\ Cardinality(1 .. n) = n
  BY FS_Interval
<1>10. Cardinality(D) = n
  BY <1>8, <1>9, FS_Bijection
<1> QED BY <1>1, <1>3, <1>4, <1>10 DEF D

\* As long as only such entries are added, and again after a rebuild, the index
\* reads as exactly what was added: AddEntry, RemoveEntry and RebuildIndex lose
\* nothing and leave no second entry of a path, and each entry comes back under
\* its type, lowered (internal/index/index.go).
THEOREM IndexTells == FilesSpec => []IndexTellsWhatWasAdded
<1>1. FilesInit => IndexInv /\ CleanEntriesSurvive /\ TellsInv
  BY IndexInvInit, TellsInit
<1>2. IndexInv /\ CleanEntriesSurvive /\ TellsInv /\ [FilesNext]_filesVars
        => (IndexInv /\ CleanEntriesSurvive /\ TellsInv)'
  BY IndexInvNext, TellsNext
<1>3. IndexInv /\ CleanEntriesSurvive /\ TellsInv => IndexTellsWhatWasAdded
  BY Told
<1> QED BY <1>1, <1>2, <1>3, PTL DEF FilesSpec

-----------------------------------------------------------------------------
(* The description of a log entry.                                         *)

Solid(word) == word \notin {"NL", " "}

\* r is what is left of t from its first solid word a to its last, b.
TrimsTo(t, a, b, r) ==
    /\ a \in 1 .. Len(t) /\ b \in 1 .. Len(t) /\ a <= b
    /\ Solid(t[a]) /\ Solid(t[b])
    /\ \A k \in 1 .. Len(t) : Solid(t[k]) => a <= k /\ k <= b
    /\ r = SubSeq(t, a, b)

\* What strings.TrimSpace leaves.
LEMMA TrimmedIs ==
    ASSUME NEW t \in Text
    PROVE  \/ (\A k \in 1 .. Len(t) : ~Solid(t[k])) /\ Trimmed(t) = <<>>
           \/ \E a, b : TrimsTo(t, a, b, Trimmed(t))
<1> DEFINE solid == {k \in DOMAIN t : t[k] \notin {"NL", " "}}
<1>1. PICK n \in Nat : n = Len(t) /\ DOMAIN t = 1 .. n
  BY DEF Text
<1>2. /\ solid \subseteq 1 .. n
      /\ \A k \in 1 .. n : k \in solid <=> Solid(t[k])
  BY <1>1 DEF Solid
<1>3. Trimmed(t) = IF solid = {} THEN <<>> ELSE SubSeq(t, Min(solid), Max(solid))
  BY DEF Trimmed
<1> HIDE DEF solid
<1>4. CASE solid = {}
  BY <1>1, <1>2, <1>3, <1>4
<1>5. CASE solid # {}
  <2>1. solid \subseteq Nat /\ solid \subseteq 0 .. n
    BY <1>2, FiniteUpto
  <2>2. PICK a \in solid : a = Min(solid) /\ \A k \in solid : a <= k
    BY <1>5, <2>1, MinOfNats
  <2>3. PICK b \in solid : b = Max(solid) /\ \A k \in solid : b >= k
    BY <1>5, <2>1, MaxOfNats
  <2>4. a \in 1 .. n /\ b \in 1 .. n /\ Solid(t[a]) /\ Solid(t[b])
    BY <1>2
  <2>5. a <= b /\ \A k \in 1 .. n : Solid(t[k]) => a <= k /\ k <= b
    <3>1. a <= b
      BY <2>2
    <3>2. ASSUME NEW k \in 1 .. n, Solid(t[k]) PROVE a <= k /\ k <= b
      <4>1. k \in solid
        BY <1>2, <3>2
      <4>2. a <= k /\ b >= k
        BY <2>2, <2>3, <4>1
      <4> QED BY <2>4, <4>2
    <3> QED BY <3>1, <3>2
  <2>6. Trimmed(t) = SubSeq(t, a, b)
    BY <1>3, <1>5, <2>2, <2>3
  <2>7. TrimsTo(t, a, b, Trimmed(t))
    BY ONLY <1>1, <2>4, <2>5, <2>6 DEF TrimsTo
  <2> QED BY <2>7
<1> QED BY <1>4, <1>5

\* It is a text.
LEMMA TrimmedTypes ==
    ASSUME NEW t \in Text
    PROVE  Trimmed(t) \in Text
<1>1. CASE Trimmed(t) = <<>>
  BY <1>1 DEF Text
<1>2. ASSUME NEW a, NEW b, TrimsTo(t, a, b, Trimmed(t)) PROVE Trimmed(t) \in Text
  <2>1. a \in 1 .. Len(t) /\ b \in 1 .. Len(t) /\ Trimmed(t) = SubSeq(t, a, b)
    BY <1>2 DEF TrimsTo
  <2>2. SubSeq(t, a, b) \in Seq(Words)
    BY <2>1 DEF Text
  <2> QED BY <2>1, <2>2 DEF Text
<1> QED BY <1>1, <1>2, TrimmedIs

\* f is t of L words with a line break before it and two behind it.
FramedBy(f, t, L) ==
    /\ Len(f) = L + 3
    /\ f[1] = "NL" /\ f[L + 2] = "NL" /\ f[L + 3] = "NL"
    /\ \A k \in 1 .. L : f[1 + k] = t[k]

\* A line break before a trimmed text and two behind it are trimmed off again.
LEMMA TrimmedBack ==
    ASSUME NEW t \in Text, t = Trimmed(t), NEW L \in Nat, L = Len(t),
           NEW f \in Text, FramedBy(f, t, L)
    PROVE  Trimmed(f) = t
<1>0. /\ Len(f) = L + 3 /\ f[1] = "NL" /\ f[L + 2] = "NL" /\ f[L + 3] = "NL"
      /\ \A k \in 1 .. L : f[1 + k] = t[k]
  BY ONLY FramedBy(f, t, L) DEF FramedBy
<1> USE <1>0
<1>1. \A k \in 1 .. L + 3 : Solid(f[k]) => \E j \in 1 .. L : k = 1 + j /\ Solid(t[j])
  <2> SUFFICES ASSUME NEW k \in 1 .. L + 3, Solid(f[k])
               PROVE  \E j \in 1 .. L : k = 1 + j /\ Solid(t[j])
    OBVIOUS
  <2>1. k # 1 /\ k # L + 2 /\ k # L + 3
    BY DEF Solid
  <2>2. PICK j \in 1 .. L : k = 1 + j
    <3>1. k - 1 \in 1 .. L /\ k = 1 + (k - 1)
      BY ONLY <2>1, L \in Nat, k \in 1 .. L + 3
    <3> QED BY <3>1
  <2>3. f[1 + j] = t[j]
    OBVIOUS
  <2> QED BY <2>2, <2>3
<1>2. \A j \in 1 .. L : Solid(t[j]) => 1 + j \in 1 .. L + 3 /\ Solid(f[1 + j])
  OBVIOUS
<1>3. CASE \A k \in 1 .. L : ~Solid(t[k])
  <2>1. t = <<>>
    <3>1. ASSUME NEW a, NEW b, TrimsTo(t, a, b, Trimmed(t)) PROVE FALSE
      BY <1>3, <3>1 DEF TrimsTo
    <3> QED BY <3>1, TrimmedIs
  <2>2. \A k \in 1 .. Len(f) : ~Solid(f[k])
    BY <1>1, <1>3
  <2>3. ASSUME NEW a, NEW b, TrimsTo(f, a, b, Trimmed(f)) PROVE FALSE
    BY <2>2, <2>3 DEF TrimsTo
  <2> QED BY <2>1, <2>3, TrimmedIs
<1>4. CASE ~ \A k \in 1 .. L : ~Solid(t[k])
  <2>1. \E a, b : TrimsTo(t, a, b, Trimmed(t))
    BY <1>4, TrimmedIs
  <2>2. PICK a, b : TrimsTo(t, a, b, t)
    BY <2>1
  <2>3. /\ a \in 1 .. L /\ b \in 1 .. L /\ a <= b /\ Solid(t[a]) /\ Solid(t[b])
        /\ \A k \in 1 .. L : Solid(t[k]) => a <= k /\ k <= b
        /\ t = SubSeq(t, a, b)
    BY <2>2 DEF TrimsTo
  <2>4. a = 1 /\ b = L
    <3>1. Len(SubSeq(t, a, b)) = b - a + 1
      BY <2>3 DEF Text
    <3>2. L = b - a + 1
      BY <2>3, <3>1
    <3> QED BY ONLY <2>3, <3>2, L \in Nat
  <2>5. PICK c, d : TrimsTo(f, c, d, Trimmed(f))
    <3>1. 1 + a \in 1 .. Len(f) /\ Solid(f[1 + a])
      BY <1>2, <2>3
    <3> QED BY <3>1, TrimmedIs
  <2>6. /\ c \in 1 .. L + 3 /\ d \in 1 .. L + 3 /\ Solid(f[c]) /\ Solid(f[d])
        /\ \A k \in 1 .. L + 3 : Solid(f[k]) => c <= k /\ k <= d
        /\ Trimmed(f) = SubSeq(f, c, d)
    BY <2>5 DEF TrimsTo
  <2>7. c = 2
    <3>1. PICK j \in 1 .. L : c = 1 + j /\ Solid(t[j])
      BY <1>1, <2>6
    <3>2. c <= 1 + 1
      BY <1>2, <2>3, <2>4, <2>6
    <3> QED BY ONLY <3>1, <3>2, L \in Nat
  <2>8. d = L + 1
    <3>1. PICK j \in 1 .. L : d = 1 + j /\ Solid(t[j])
      BY <1>1, <2>6
    <3>2. 1 + L <= d
      BY <1>2, <2>3, <2>4, <2>6
    <3> QED BY ONLY <3>1, <3>2, L \in Nat
  <2>9. SubSeq(f, 1 + 1, 1 + Len(t)) = t
    <3>1. f \in Seq(Words) /\ t \in Seq(Words) /\ 1 \in Nat /\ \A i \in 1 .. Len(t) : f[1 + i] = t[i]
      BY DEF Text
    <3> QED BY ONLY <3>1, PartIs
  <2>10. 1 + 1 = 2 /\ 1 + Len(t) = L + 1
    OBVIOUS
  <2> QED BY <2>6, <2>7, <2>8, <2>9, <2>10
<1> QED BY <1>3, <1>4

\* The lines of body, each with its line break.
Ended(body) == [m \in DOMAIN body |-> Append(body[m], "NL")]

\* body holds the lines of t, with an empty line before and behind them.
BodyOf(body, t) ==
    /\ Len(body) = Len(Lines(t)) + 2
    /\ body[1] = <<>> /\ body[Len(Lines(t)) + 2] = <<>>
    /\ \A m \in 1 .. Len(Lines(t)) : body[m + 1] = Lines(t)[m]

\* ReadLog joins the lines of a description again.
LEMMA Joined ==
    ASSUME NEW t \in Text, NEW L \in Nat, L = Len(t),
           NEW body \in Seq(Text), BodyOf(body, t),
           NEW f, f = FlattenSeq(Ended(body))
    PROVE  f \in Text /\ FramedBy(f, t, L)
<1>a. PICK M \in Nat : M = Len(Lines(t))
  <2>1. Lines(t) \in Seq(Text)
    BY LinesAre
  <2>2. Len(Lines(t)) \in Nat
    BY ONLY <2>1
  <2> QED BY ONLY <2>2
<1>b. /\ Len(body) = M + 2 /\ body[1] = <<>> /\ body[M + 2] = <<>>
      /\ \A m \in 1 .. M : body[m + 1] = Lines(t)[m]
  BY ONLY <1>a, BodyOf(body, t) DEF BodyOf
<1> USE <1>a, <1>b
<1>0. PICK s : s = Ended(body)
  OBVIOUS
<1>1. /\ s \in Seq(Seq(Words)) /\ Len(s) = M + 2
      /\ \A m \in 1 .. M + 2 : s[m] = Append(body[m], "NL")
  <2>1a. "NL" \in Words
    BY Marks
  <2>1b. DOMAIN body = 1 .. M + 2 /\ \A m \in 1 .. M + 2 : body[m] \in Text
    BY ONLY body \in Seq(Text), <1>b
  <2>1. "NL" \in Words /\ DOMAIN body = 1 .. M + 2 /\ \A m \in 1 .. M + 2 : body[m] \in Seq(Words)
    BY ONLY <2>1a, <2>1b DEF Text
  <2>2. \A m \in 1 .. M + 2 : Append(body[m], "NL") \in Seq(Words)
    BY <2>1
  <2>3. s = [m \in 1 .. M + 2 |-> Append(body[m], "NL")]
    BY <1>0, <2>1 DEF Ended
  <2> QED BY ONLY <2>2, <2>3, M \in Nat
<1>2. \A m \in 1 .. M + 2 : /\ Len(s[m]) = Len(body[m]) + 1 /\ Len(body[m]) \in Nat
                            /\ s[m][Len(body[m]) + 1] = "NL"
                            /\ \A i \in 1 .. Len(body[m]) : s[m][i] = body[m][i]
  <2> SUFFICES ASSUME NEW m \in 1 .. M + 2
               PROVE  /\ Len(s[m]) = Len(body[m]) + 1 /\ Len(body[m]) \in Nat
                      /\ s[m][Len(body[m]) + 1] = "NL"
                      /\ \A i \in 1 .. Len(body[m]) : s[m][i] = body[m][i]
    OBVIOUS
  <2>1. PICK line \in Seq(Words) : line = body[m]
    <3>1. body[m] \in Text
      OBVIOUS
    <3> QED BY <3>1 DEF Text
  <2>2. /\ Len(Append(line, "NL")) = Len(line) + 1 /\ Len(line) \in Nat
        /\ Append(line, "NL")[Len(line) + 1] = "NL"
        /\ \A i \in 1 .. Len(line) : Append(line, "NL")[i] = line[i]
    OBVIOUS
  <2> QED BY <1>1, <2>1, <2>2
<1>3. f \in Seq(Words) /\ \E o : Offsets(o, s, f)
  <2>1. f = FlattenSeq(s)
    BY <1>0
  <2> QED BY <1>1, <2>1, FlattenIs
<1>4. PICK o : Offsets(o, s, f)
  BY <1>3
<1>5. /\ o \in [1 .. M + 3 -> Nat] /\ Len(f) = o[M + 3] /\ o[1] = 0
      /\ \A n \in 1 .. M + 2 : o[n + 1] = o[n] + Len(s[n])
      /\ \A n \in 1 .. M + 2, i \in Nat \ {0} : i <= Len(s[n]) => f[o[n] + i] = s[n][i]
      /\ \A i \in 1 .. Len(f) :
            \E n \in 1 .. M + 2, m \in Nat \ {0} : m <= Len(s[n]) /\ i = o[n] + m
  <2>1. Len(s) = M + 2 /\ Len(s) + 1 = M + 3
    BY <1>1
  <2>2. /\ o \in [1 .. M + 3 -> Nat] /\ Len(f) = o[M + 3] /\ o[1] = 0
        /\ \A n \in 1 .. M + 2 : o[n + 1] = o[n] + Len(s[n])
    BY ONLY <1>4, <2>1 DEF Offsets
  <2>3. \A n \in 1 .. M + 2, i \in Nat \ {0} : i <= Len(s[n]) => f[o[n] + i] = s[n][i]
    BY ONLY <1>4, <2>1 DEF Offsets
  <2>4. \A i \in 1 .. Len(f) :
            \E n \in 1 .. M + 2, m \in Nat \ {0} : m <= Len(s[n]) /\ i = o[n] + m
    BY ONLY <1>4, <2>1 DEF Offsets
  <2> QED BY ONLY <2>2, <2>3, <2>4
<1>6. PICK b \in Seq(Nat) :
        /\ Len(b) >= 2 /\ b[1] = 0 /\ b[Len(b)] = Len(t) + 1
        /\ \A i \in 2 .. Len(b) - 1 : b[i] \in 1 .. Len(t) /\ t[b[i]] = "NL"
        /\ Lines(t) \in Seq(Text) /\ Len(Lines(t)) = Len(b) - 1
        /\ \A n \in 1 .. Len(b) - 1 :
              /\ Len(Lines(t)[n]) = b[n + 1] - b[n] - 1
              /\ \A m \in 1 .. Len(Lines(t)[n]) : Lines(t)[n][m] = t[b[n] + m]
  BY LinesAre
<1>7. /\ Len(b) = M + 1 /\ M >= 1 /\ b[M + 1] = L + 1
      /\ \A i \in 1 .. M + 1 : b[i] \in Nat
      /\ \A i \in 2 .. M : b[i] \in 1 .. L /\ t[b[i]] = "NL"
  <2>0. Len(b) \in Nat /\ Len(b) >= 2
    <3>1. Len(b) \in Nat
      BY ONLY b \in Seq(Nat)
    <3> QED BY <1>6, <3>1
  <2>1. PICK n \in Nat : n = Len(b) /\ n >= 2
    BY ONLY <2>0
  <2>2. M = n - 1
    BY <1>6, <2>1
  <2>3. n = M + 1 /\ M >= 1 /\ n - 1 = M
    BY ONLY <2>1, <2>2, M \in Nat
  <2>4. \A i \in 1 .. M + 1 : b[i] \in Nat
    <3>1. \A i \in 1 .. Len(b) : b[i] \in Nat
      BY ONLY b \in Seq(Nat)
    <3> QED BY ONLY <2>1, <2>3, <3>1
  <2> QED BY <1>6, <2>1, <2>3, <2>4
<1>8. \A m \in 1 .. M : /\ Len(body[m + 1]) = b[m + 1] - b[m] - 1
                        /\ \A i \in 1 .. Len(body[m + 1]) : body[m + 1][i] = t[b[m] + i]
  <2>1. Len(b) - 1 = M
    BY <1>7
  <2>2. \A m \in 1 .. M : /\ Len(Lines(t)[m]) = b[m + 1] - b[m] - 1
                          /\ \A i \in 1 .. Len(Lines(t)[m]) : Lines(t)[m][i] = t[b[m] + i]
    BY ONLY <1>6, <2>1
  <2> SUFFICES ASSUME NEW m \in 1 .. M
               PROVE  /\ Len(body[m + 1]) = b[m + 1] - b[m] - 1
                      /\ \A i \in 1 .. Len(body[m + 1]) : body[m + 1][i] = t[b[m] + i]
    OBVIOUS
  <2>3. PICK line : line = Lines(t)[m] /\ line = body[m + 1]
    OBVIOUS
  <2>4. Len(line) = b[m + 1] - b[m] - 1 /\ \A i \in 1 .. Len(line) : line[i] = t[b[m] + i]
    BY ONLY <2>2, <2>3, m \in 1 .. M
  <2> QED BY ONLY <2>3, <2>4
<1>9. Len(body[1]) = 0 /\ Len(body[M + 2]) = 0
  <2>1. Len(<<>>) = 0
    OBVIOUS
  <2> QED BY <2>1
<1>10. \A m \in 1 .. M : o[m + 2] = o[m + 1] + (b[m + 1] - b[m])
  <2> SUFFICES ASSUME NEW m \in 1 .. M PROVE o[m + 2] = o[m + 1] + (b[m + 1] - b[m])
    OBVIOUS
  <2>1. m + 1 \in 1 .. M + 2 /\ m + 1 + 1 = m + 2 /\ m + 1 \in 1 .. M + 1 /\ m \in 1 .. M + 1
    OBVIOUS
  <2>2. o[m + 2] = o[m + 1] + Len(s[m + 1])
    BY <1>5, <2>1
  <2>3. Len(s[m + 1]) = Len(body[m + 1]) + 1
    BY <1>2, <2>1
  <2>4. Len(body[m + 1]) = b[m + 1] - b[m] - 1
    BY <1>8
  <2>5. PICK x \in Nat, y \in Nat : x = b[m] /\ y = b[m + 1]
    BY <1>7, <2>1
  <2>6. Len(s[m + 1]) = y - x
    <3>1. Len(body[m + 1]) = y - x - 1
      BY ONLY <2>4, <2>5
    <3>2. Len(s[m + 1]) = y - x - 1 + 1
      BY ONLY <2>3, <3>1
    <3> QED BY ONLY <3>2, x \in Nat, y \in Nat
  <2> QED BY ONLY <2>2, <2>5, <2>6
<1>11. o[2] = 1
  <2>1. 1 \in 1 .. M + 2 /\ 1 + 1 = 2
    OBVIOUS
  <2>2. Len(s[1]) = 1
    <3>1. Len(s[1]) = Len(body[1]) + 1
      BY ONLY <1>2, <2>1
    <3> QED BY ONLY <1>9, <3>1
  <2>3. o[2] = o[1] + Len(s[1])
    BY <1>5, <2>1
  <2> QED BY <1>5, <2>2, <2>3
<1>12. \A m \in 1 .. M + 1 : o[m + 1] = 1 + b[m]
  <2> DEFINE Bad == {m \in 1 .. M + 1 : o[m + 1] # 1 + b[m]}
  <2>1. Bad \subseteq Nat /\ \A m \in 1 .. M + 1 : m \in Bad <=> o[m + 1] # 1 + b[m]
    OBVIOUS
  <2> HIDE DEF Bad
  <2>2. ASSUME Bad # {} PROVE FALSE
    <3>1. PICK m \in Bad : \A k \in Bad : m <= k
      BY <2>1, <2>2, LeastNat
    <3>2. m \in 1 .. M + 1 /\ o[m + 1] # 1 + b[m]
      BY <2>1 DEF Bad
    <3>3. m # 1
      <4>1. ASSUME m = 1 PROVE FALSE
        <5>1. o[2] = 1 /\ b[1] = 0
          BY <1>6, <1>11
        <5>2. m + 1 = 2
          BY ONLY <4>1
        <5>3. o[m + 1] = 1 /\ b[m] = 0
          BY ONLY <4>1, <5>1, <5>2
        <5> QED BY ONLY <3>2, <5>3
      <4> QED BY ONLY <4>1
    <3>4. PICK k \in 1 .. M : m = k + 1
      <4>1. m - 1 \in 1 .. M /\ m = (m - 1) + 1
        BY ONLY <3>2, <3>3, M \in Nat
      <4> QED BY <4>1
    <3>5. k \in 1 .. M + 1 /\ k \notin Bad
      <4>1. ~(m <= k)
        BY <3>4
      <4> QED BY <3>1, <4>1
    <3>6. o[k + 1] = 1 + b[k]
      BY <2>1, <3>5
    <3>7. o[k + 2] = o[k + 1] + (b[k + 1] - b[k])
      BY <1>10
    <3>8. PICK x \in Nat, y \in Nat : x = b[k] /\ y = b[k + 1]
      BY <1>7, <3>2, <3>4, <3>5
    <3>9. o[k + 2] = 1 + x + (y - x)
      BY ONLY <3>6, <3>7, <3>8
    <3>10. o[k + 2] = 1 + y
      BY ONLY <3>9, x \in Nat, y \in Nat
    <3>11. m + 1 = k + 2
      BY <3>4
    <3> QED BY <3>2, <3>4, <3>8, <3>10, <3>11
  <2> QED BY <2>1, <2>2
<1>13. o[M + 2] = L + 2 /\ Len(f) = L + 3
  <2>1. o[M + 2] = L + 2
    <3>1. M + 1 \in 1 .. M + 1 /\ M + 1 + 1 = M + 2
      OBVIOUS
    <3>2. o[M + 2] = 1 + b[M + 1]
      BY <1>12, <3>1
    <3> QED BY <1>7, <3>2
  <2>2. o[M + 3] = o[M + 2] + Len(s[M + 2])
    <3>1. M + 2 \in 1 .. M + 2 /\ M + 2 + 1 = M + 3
      OBVIOUS
    <3> QED BY <1>5, <3>1
  <2>3. Len(s[M + 2]) = 1
    <3>1. M + 2 \in 1 .. M + 2
      OBVIOUS
    <3>2. Len(s[M + 2]) = Len(body[M + 2]) + 1
      BY ONLY <1>2, <3>1
    <3> QED BY ONLY <1>9, <3>2
  <2> QED BY <1>5, <2>1, <2>2, <2>3
<1>14. f[1] = "NL" /\ f[L + 3] = "NL"
  <2>1. 1 \in 1 .. M + 2 /\ M + 2 \in 1 .. M + 2 /\ 1 \in Nat \ {0}
    OBVIOUS
  <2>1a. ASSUME NEW m \in 1 .. M + 2, Len(body[m]) = 0
         PROVE  s[m][1] = "NL" /\ Len(s[m]) = 1 /\ f[o[m] + 1] = s[m][1]
    <3>1. Len(s[m]) = Len(body[m]) + 1 /\ s[m][Len(body[m]) + 1] = "NL"
      BY ONLY <1>2
    <3>2. Len(s[m]) = 1 /\ s[m][1] = "NL"
      BY ONLY <3>1, <2>1a
    <3>3. \A i \in Nat \ {0} : i <= Len(s[m]) => f[o[m] + i] = s[m][i]
      BY ONLY <1>5
    <3>4. f[o[m] + 1] = s[m][1]
      BY ONLY <2>1, <3>2, <3>3
    <3> QED BY <3>2, <3>4
  <2>2. s[1][1] = "NL" /\ Len(s[1]) = 1 /\ s[M + 2][1] = "NL" /\ Len(s[M + 2]) = 1
    BY <1>9, <2>1, <2>1a
  <2>3. f[o[1] + 1] = s[1][1] /\ f[o[M + 2] + 1] = s[M + 2][1]
    BY <1>9, <2>1, <2>1a
  <2>4. o[1] + 1 = 1 /\ o[M + 2] + 1 = L + 3
    BY <1>5, <1>13
  <2> QED BY <2>2, <2>3, <2>4
<1>15. \A m \in 1 .. M : f[1 + b[m + 1]] = "NL"
  <2> SUFFICES ASSUME NEW m \in 1 .. M PROVE f[1 + b[m + 1]] = "NL"
    OBVIOUS
  <2>1. m + 1 \in 1 .. M + 2 /\ m + 1 \in 1 .. M + 1 /\ m + 1 + 1 = m + 2
    OBVIOUS
  <2>2. PICK z \in Nat : z = Len(body[m + 1])
    BY <1>2, <2>1
  <2>3. Len(s[m + 1]) = z + 1 /\ s[m + 1][z + 1] = "NL" /\ z + 1 \in Nat \ {0} /\ z + 1 <= z + 1
    BY <1>2, <2>1, <2>2
  <2>4. f[o[m + 1] + (z + 1)] = s[m + 1][z + 1]
    BY <1>5, <2>1, <2>3
  <2>5. o[m + 1] + (z + 1) = o[m + 2]
    BY <1>5, <2>1, <2>3
  <2>6. o[m + 2] = 1 + b[m + 1]
    BY <1>12, <2>1
  <2> QED BY ONLY <2>3, <2>4, <2>5, <2>6
<1>16. f[L + 2] = "NL"
  <2>1. f[1 + b[M + 1]] = "NL"
    <3>1. M \in 1 .. M
      BY <1>7
    <3> QED BY ONLY <1>15, <3>1
  <2>2. 1 + b[M + 1] = L + 2
    BY <1>7
  <2> QED BY <2>1, <2>2
<1>17. ASSUME NEW k \in 1 .. L PROVE f[1 + k] = t[k]
  <2>1. 1 + k \in 1 .. Len(f)
    BY <1>13
  <2>2. PICK n \in 1 .. M + 2 : \E i \in Nat \ {0} : i <= Len(s[n]) /\ 1 + k = o[n] + i
    <3>1. \A j \in 1 .. Len(f) :
             \E n \in 1 .. M + 2 : \E i \in Nat \ {0} : i <= Len(s[n]) /\ j = o[n] + i
      BY ONLY <1>5
    <3> QED BY ONLY <2>1, <3>1
  <2>3. PICK i \in Nat \ {0} : i <= Len(s[n]) /\ 1 + k = o[n] + i
    BY <2>2
  <2>4. n # 1
    <3>1. ASSUME n = 1 PROVE FALSE
      <4>1. o[1] = 0
        BY ONLY <1>5
      <4>2. Len(s[1]) = 1
        <5>1. 1 \in 1 .. M + 2
          BY ONLY M \in Nat
        <5>2. Len(s[1]) = Len(body[1]) + 1
          BY ONLY <1>2, <5>1
        <5> QED BY ONLY <1>9, <5>2
      <4>3. 1 + k = 1 + 0 \/ 1 + k = 0 + 1
        BY ONLY <2>3, <3>1, <4>1, <4>2
      <4> QED BY ONLY <4>3, k \in 1 .. L, L \in Nat
    <3> QED BY <3>1
  <2>5. n # M + 2
    BY <1>13, <2>3
  <2>6. PICK m \in 1 .. M : n = m + 1
    <3>1. n - 1 \in 1 .. M /\ n = (n - 1) + 1
      BY ONLY <2>4, <2>5, M \in Nat, n \in 1 .. M + 2
    <3> QED BY <3>1
  <2>7. PICK x \in Nat : x = b[m] /\ o[m + 1] = 1 + x
    <3>1. m \in 1 .. M + 1
      OBVIOUS
    <3>2. o[m + 1] = 1 + b[m] /\ b[m] \in Nat
      BY <1>7, <1>12, <3>1
    <3> QED BY <3>2
  <2>8. k = x + i
    <3>1. 1 + k = 1 + x + i
      BY ONLY <2>3, <2>6, <2>7
    <3> QED BY ONLY <3>1, k \in 1 .. L, L \in Nat, x \in Nat, i \in Nat \ {0}
  <2>9. CASE i <= Len(body[m + 1])
    <3>1. m + 1 \in 1 .. M + 2 /\ i \in 1 .. Len(body[m + 1])
      BY <1>2, <2>9
    <3>2. s[m + 1][i] = t[x + i]
      BY <1>2, <1>8, <2>7, <3>1
    <3>3. f[o[m + 1] + i] = s[m + 1][i]
      BY <1>5, <2>3, <2>6, <3>1
    <3> QED BY <2>3, <2>6, <2>8, <3>2, <3>3
  <2>10. CASE ~(i <= Len(body[m + 1]))
    <3>1. m + 1 \in 1 .. M + 2 /\ m + 1 \in 1 .. M + 1
      OBVIOUS
    <3>2. PICK z \in Nat : z = Len(body[m + 1]) /\ Len(s[m + 1]) = z + 1
      BY <1>2, <3>1
    <3>3. i = z + 1
      BY <2>3, <2>6, <2>10, <3>2
    <3>4. PICK y \in Nat : y = b[m + 1] /\ z = y - x - 1
      <4>1. PICK y \in Nat : y = b[m + 1]
        BY <1>7, <3>1
      <4>2. z = y - x - 1
        BY ONLY <1>8, <2>7, <3>2, <4>1, m \in 1 .. M
      <4> QED BY <4>1, <4>2
    <3>5. k = y
      <4>1. z = y - x - 1
        BY <3>4
      <4>2. i = y - x
        BY ONLY <3>3, <4>1, x \in Nat, y \in Nat
      <4> QED BY ONLY <2>8, <4>2, x \in Nat, y \in Nat
    <3>6. m # M
      <4>1. b[m + 1] = k /\ k # L + 1
        BY <3>4, <3>5
      <4>2. b[M + 1] = L + 1
        BY <1>7
      <4> QED BY <4>1, <4>2
    <3>7. t[y] = "NL"
      <4>1. m + 1 \in 2 .. M
        BY <3>6
      <4> QED BY <1>7, <3>4, <4>1
    <3>8. f[1 + y] = "NL"
      BY <1>15, <3>4
    <3> QED BY <3>5, <3>7, <3>8
  <2> QED BY <2>9, <2>10
<1> QED BY <1>3, <1>13, <1>14, <1>16, <1>17 DEF Text, FramedBy

\* Picked takes all there is.
LEMMA PickedAll ==
    ASSUME NEW D, NEW s \in Seq(D), NEW K, K = 1 .. Len(s)
    PROVE  Picked(s, K) = s
<1>1. PICK N \in Nat : N = Len(s)
  OBVIOUS
<1>2. K \subseteq 1 .. Len(s)
  OBVIOUS
<1>3. PICK r \in Seq(D) : r = Picked(s, K)
  BY ONLY <1>2, PickedIs, s \in Seq(D)
<1>4. PICK g : ChosenBy(g, r, s, K)
  BY ONLY <1>2, <1>3, PickedIs, s \in Seq(D)
<1>5. /\ g \in Seq(1 .. N) /\ Len(r) = Len(g)
      /\ \A n \in 1 .. Len(g) : g[n] \in 1 .. N /\ r[n] = s[g[n]]
      /\ \A i, j \in 1 .. Len(g) : i < j => g[i] < g[j]
      /\ \A k \in 1 .. N : \E i \in 1 .. Len(g) : g[i] = k
  BY ONLY <1>1, <1>4, K = 1 .. Len(s) DEF ChosenBy
<1>6. PICK G \in Nat : G = Len(g)
  BY <1>5
<1>7. \A i \in 1 .. G : g[i] = i
  <2> DEFINE Bad == {i \in 1 .. G : g[i] # i}
  <2>1. Bad \subseteq Nat /\ \A i \in 1 .. G : i \in Bad <=> g[i] # i
    OBVIOUS
  <2>2. \A i \in Bad : i \in 1 .. G /\ g[i] # i
    OBVIOUS
  <2> HIDE DEF Bad
  <2>3. ASSUME Bad # {} PROVE FALSE
    <3>1. PICK i \in Bad : \A k \in Bad : i <= k
      BY <2>1, <2>3, LeastNat
    <3>2. i \in 1 .. G /\ g[i] # i /\ g[i] \in 1 .. N
      BY <1>5, <1>6, <2>2
    <3>3. \A j \in 1 .. G : j < i => g[j] = j
      BY <2>1, <3>1
    <3>4. i <= g[i]
      <4>1. CASE i = 1
        BY <3>2, <4>1
      <4>2. CASE i # 1
        <5>1. PICK j \in 1 .. G : i = j + 1 /\ j < i
          <6>1. i - 1 \in 1 .. G /\ i = (i - 1) + 1 /\ i - 1 < i
            BY ONLY <3>2, <4>2, G \in Nat
          <6> QED BY <6>1
        <5>2. g[j] = j /\ g[j] < g[i]
          BY <1>5, <1>6, <3>2, <3>3, <5>1
        <5> QED BY <3>2, <5>1, <5>2
      <4> QED BY <4>1, <4>2
    <3>5. i < g[i] /\ i \in 1 .. N
      BY <3>2, <3>4
    <3>6. PICK j \in 1 .. G : g[j] = i
      BY <1>5, <1>6, <3>5
    <3>7. i < j
      BY <3>2, <3>3, <3>6
    <3>8. g[i] < g[j]
      BY <1>5, <1>6, <3>2, <3>7
    <3> QED BY <3>2, <3>5, <3>6, <3>8
  <2> QED BY <2>1, <2>3
<1>8. G = N
  <2>1. G <= N
    <3>1. CASE G = 0
      BY <3>1
    <3>2. CASE G # 0
      <4>1. G \in 1 .. G /\ g[G] = G
        BY <1>7, <3>2
      <4>2. g[G] \in 1 .. N
        BY <1>5, <1>6, <4>1
      <4> QED BY <4>1, <4>2
    <3> QED BY <3>1, <3>2
  <2>2. N <= G
    <3>1. CASE N = 0
      BY <3>1
    <3>2. CASE N # 0
      <4>1. N \in 1 .. N
        BY <3>2
      <4>2. PICK i \in 1 .. G : g[i] = N
        BY <1>5, <1>6, <4>1
      <4> QED BY <1>7, <4>2
    <3> QED BY <3>1, <3>2
  <2> QED BY <2>1, <2>2
<1>9. \A i \in 1 .. N : r[i] = s[i]
  <2> TAKE i \in 1 .. N
  <2>1. r[i] = s[g[i]] /\ g[i] = i
    BY ONLY <1>5, <1>6, <1>7, <1>8, i \in 1 .. N
  <2> QED BY ONLY <2>1
<1>10. Len(r) = N
  BY <1>5, <1>6, <1>8
<1>11. r = s
  BY ONLY <1>1, <1>9, <1>10, r \in Seq(D), s \in Seq(D)
<1> QED BY <1>3, <1>11

\* A description is a text, whatever the lines.
LEMMA NoteTypes ==
    ASSUME NEW lines \in Seq(Text)
    PROVE  NoteOf(lines) \in Text
<1> DEFINE K == {k \in DOMAIN lines : Kept(lines[k])}
<1>1. K \subseteq 1 .. Len(lines)
  OBVIOUS
<1>2. PICK kept : kept = Picked(lines, K)
  OBVIOUS
<1>3. NoteOf(lines) = Trimmed(FlattenSeq([m \in DOMAIN kept |-> Append(kept[m], "NL")]))
  BY <1>2 DEF NoteOf
<1> HIDE DEF K
<1>4. kept \in Seq(Text)
  BY <1>1, <1>2, PickedIs
<1>5. PICK s : s = [m \in DOMAIN kept |-> Append(kept[m], "NL")]
  OBVIOUS
<1>6. s \in Seq(Seq(Words))
  <2>1. PICK n \in Nat : n = Len(kept) /\ DOMAIN kept = 1 .. n /\ \A m \in 1 .. n : kept[m] \in Text
    BY <1>4
  <2>2. "NL" \in Words
    BY Marks
  <2>3. \A m \in 1 .. n : Append(kept[m], "NL") \in Seq(Words)
    BY ONLY <2>1, <2>2 DEF Text
  <2>4. s = [m \in 1 .. n |-> Append(kept[m], "NL")]
    BY <1>5, <2>1
  <2> QED BY ONLY <2>3, <2>4, n \in Nat
<1>7. FlattenSeq(s) \in Text
  BY <1>6, FlattenIs DEF Text
<1> QED BY <1>3, <1>5, <1>7, TrimmedTypes

\* The description read from the lines it was rendered as.
LEMMA NoteBack ==
    ASSUME NEW t \in Text, t = Trimmed(t),
           \A line \in ToSet(Lines(t)) : ~Begins(line, "# "),
           NEW body \in Seq(Text), BodyOf(body, t)
    PROVE  NoteOf(body) = t
<1>a. PICK M \in Nat : M = Len(Lines(t))
  <2>1. Lines(t) \in Seq(Text)
    BY LinesAre
  <2>2. Len(Lines(t)) \in Nat
    BY ONLY <2>1
  <2> QED BY ONLY <2>2
<1>b. /\ Len(body) = M + 2 /\ body[1] = <<>> /\ body[M + 2] = <<>>
      /\ \A m \in 1 .. M : body[m + 1] = Lines(t)[m]
  BY ONLY <1>a, BodyOf(body, t) DEF BodyOf
<1> USE <1>a, <1>b
<1>1. \A k \in 1 .. M + 2 : Kept(body[k])
  <2> SUFFICES ASSUME NEW k \in 1 .. M + 2 PROVE Kept(body[k])
    OBVIOUS
  <2>1. CASE k = 1 \/ k = M + 2
    BY <2>1 DEF Kept, Begins
  <2>2. CASE ~(k = 1 \/ k = M + 2)
    <3>1. PICK m \in 1 .. M : k = m + 1
      <4>1. k - 1 \in 1 .. M /\ k = (k - 1) + 1
        BY ONLY <2>2, k \in 1 .. M + 2, M \in Nat
      <4> QED BY <4>1
    <3>2. Lines(t)[m] \in ToSet(Lines(t))
      <4>1. Lines(t) \in Seq(Text)
        BY LinesAre
      <4>2. DOMAIN Lines(t) = 1 .. M
        BY ONLY <4>1, <1>a
      <4> QED BY <4>2 DEF ToSet
    <3>3. ~Begins(body[k], "# ")
      BY <3>1, <3>2
    <3> QED BY <3>3 DEF Kept
  <2> QED BY <2>1, <2>2
<1>2. {k \in DOMAIN body : Kept(body[k])} = 1 .. Len(body)
  <2>1. DOMAIN body = 1 .. M + 2
    BY ONLY body \in Seq(Text), <1>b
  <2> QED BY <1>1, <2>1
<1>3. Picked(body, {k \in DOMAIN body : Kept(body[k])}) = body
  BY ONLY <1>2, PickedAll, body \in Seq(Text)
<1>4. PICK f : f = FlattenSeq(Ended(body))
  OBVIOUS
<1>5. NoteOf(body) = Trimmed(f)
  BY <1>3, <1>4, Zenon DEF NoteOf, Ended
<1>6. PICK L \in Nat : L = Len(t)
  <2>1. Len(t) \in Nat
    BY ONLY t \in Text DEF Text
  <2> QED BY ONLY <2>1
<1>7. f \in Text /\ FramedBy(f, t, L)
  BY ONLY <1>4, <1>6, Joined, t \in Text, body \in Seq(Text), BodyOf(body, t)
<1>8. Trimmed(f) = t
  BY <1>6, <1>7, TrimmedBack
<1> QED BY <1>5, <1>8

-----------------------------------------------------------------------------
(* The lines of a log entry.                                               *)

\* The heading h of an entry e whose title has T words.
HeadLaid(h, e, T) ==
    /\ h[1] = "##D" /\ h[2] = e.op
    /\ T = 0 => e.title = <<>> /\ Len(h) = 2
    /\ T # 0 => /\ Len(h) = T + 3 /\ h[3] = " | "
                /\ \A i \in 1 .. T : h[3 + i] = e.title[i]

\* Where the operation and the title are in a heading.
LEMMA HeadLayout ==
    ASSUME NEW e \in LogEntry, NEW T \in Nat, T = Len(e.title)
    PROVE  HeadingText(e) \in Text /\ HeadLaid(HeadingText(e), e, T)
<1>1. PICK t \in Seq(Words), op \in Words : t = e.title /\ op = e.op
  <2>1. e.title \in Seq(Words) /\ e.op \in Words
    BY DEF LogEntry, Text
  <2> QED BY <2>1
<1>2. PICK d \in Words, bar \in Words : d = "##D" /\ bar = " | "
  <2>1. "##D" \in Words /\ " | " \in Words
    BY Marks
  <2> QED BY <2>1
<1>3. PICK a \in Seq(Words) : a = <<d, op>> /\ Len(a) = 2 /\ a[1] = d /\ a[2] = op
  <2>1. <<d, op>> \in Seq(Words) /\ Len(<<d, op>>) = 2 /\ <<d, op>>[1] = d /\ <<d, op>>[2] = op
    BY ONLY d \in Words, op \in Words
  <2> QED BY <2>1
<1>4. PICK h : h = HeadingText(e)
  OBVIOUS
<1>5. h = a \o (IF t = <<>> THEN <<>> ELSE <<bar>> \o t)
  BY <1>1, <1>2, <1>3, <1>4 DEF HeadingText
<1>6. CASE t = <<>>
  <2>1. h = a \o <<>>
    BY <1>5, <1>6
  <2>2. h = a
    BY ONLY <2>1, a \in Seq(Words)
  <2>3. T = 0
    BY <1>1, <1>6
  <2> QED BY <1>1, <1>2, <1>3, <1>4, <1>6, <2>2, <2>3 DEF HeadLaid, Text
<1>7. CASE t # <<>>
  <2>1. T # 0 /\ Len(t) = T
    BY <1>1, <1>7
  <2>2. PICK b \in Seq(Words) : b = <<bar>> /\ Len(b) = 1 /\ b[1] = bar
    <3>1. <<bar>> \in Seq(Words) /\ Len(<<bar>>) = 1 /\ <<bar>>[1] = bar
      BY ONLY bar \in Words
    <3> QED BY ONLY <3>1
  <2>3. PICK c : c = b \o t
    OBVIOUS
  <2>4. c \in Seq(Words) /\ Len(c) = 1 + T /\ (\A i \in 1 .. 1 : c[i] = b[i]) /\ \A i \in 1 .. T : c[1 + i] = t[i]
    BY ONLY <2>1, <2>2, <2>3, CatAt, T \in Nat, 1 \in Nat, t \in Seq(Words), b \in Seq(Words)
  <2>5. h = a \o c
    BY <1>5, <1>7, <2>2, <2>3
  <2>6. PICK C \in Nat : C = 1 + T /\ Len(c) = C
    BY <2>4
  <2>7. /\ h \in Seq(Words) /\ Len(h) = 2 + C
        /\ (\A i \in 1 .. 2 : h[i] = a[i]) /\ \A i \in 1 .. C : h[2 + i] = c[i]
    BY ONLY <1>3, <2>4, <2>5, <2>6, CatAt, 2 \in Nat, a \in Seq(Words)
  <2>8. Len(h) = T + 3
    BY ONLY <2>6, <2>7, T \in Nat
  <2>9. h[3] = " | "
    <3>1. 1 \in 1 .. C /\ 1 \in 1 .. 1 /\ 2 + 1 = 3
      BY <2>6
    <3>2. h[3] = c[1] /\ c[1] = b[1]
      BY ONLY <2>4, <2>7, <3>1
    <3> QED BY <1>2, <2>2, <3>2
  <2>10. \A i \in 1 .. T : h[3 + i] = t[i]
    <3> TAKE i \in 1 .. T
    <3>1. 1 + i \in 1 .. C /\ 2 + (1 + i) = 3 + i
      BY <2>6
    <3>2. h[3 + i] = c[1 + i]
      BY <2>7, <3>1
    <3> QED BY <2>4, <3>2
  <2>11. h[1] = d /\ h[2] = op
    <3>1. 1 \in 1 .. 2 /\ 2 \in 1 .. 2
      OBVIOUS
    <3>2. h[1] = a[1] /\ h[2] = a[2]
      BY ONLY <2>7, <3>1
    <3> QED BY <1>3, <3>2
  <2>12. HeadLaid(h, e, T)
    BY ONLY <1>1, <1>2, <2>1, <2>8, <2>9, <2>10, <2>11 DEF HeadLaid
  <2> QED BY <1>4, <2>7, <2>12 DEF Text
<1> QED BY <1>6, <1>7

Unbroken(line) == \A k \in 1 .. Len(line) : line[k] # "NL"

\* The lines R of a log entry e, H of its heading and B of its description.
LogLaid(R, e, H, B) ==
    /\ H >= 1 /\ Len(R) = H + B + 2
    /\ \A i \in 1 .. H : R[i] = Lines(HeadingText(e))[i]
    /\ R[H + 1] = <<>>
    /\ \A i \in 1 .. B : R[H + 1 + i] = Lines(e.note)[i]
    /\ R[H + B + 2] = <<>>

\* No line of a text holds a line break.
LEMMA LinesUnbroken ==
    ASSUME NEW t \in Text
    PROVE  /\ Lines(t) \in Seq(Text) /\ Len(Lines(t)) >= 1
           /\ \A i \in 1 .. Len(Lines(t)) : Unbroken(Lines(t)[i])
<1>1. PICK b \in Seq(Nat) :
        /\ Len(b) >= 2
        /\ Lines(t) \in Seq(Text) /\ Len(Lines(t)) = Len(b) - 1
        /\ \A n \in 1 .. Len(b) - 1 :
              \A m \in 1 .. Len(Lines(t)[n]) :
                    Lines(t)[n][m] = t[b[n] + m] /\ t[b[n] + m] # "NL"
  BY LinesAre
<1>2. Len(b) \in Nat
  BY ONLY b \in Seq(Nat)
<1>3. Len(Lines(t)) >= 1
  BY ONLY <1>1, <1>2
<1>4. \A i \in 1 .. Len(Lines(t)) : Unbroken(Lines(t)[i])
  <2> TAKE i \in 1 .. Len(Lines(t))
  <2>1. \A m \in 1 .. Len(Lines(t)[i]) : Lines(t)[i][m] # "NL"
    BY ONLY <1>1, i \in 1 .. Len(Lines(t))
  <2> QED BY ONLY <2>1 DEF Unbroken
<1> QED BY <1>1, <1>3, <1>4

\* RenderEntry writes the heading, an empty line, the description and another.
LEMMA RenderEntryIs ==
    ASSUME NEW e \in LogEntry
    PROVE  /\ RenderEntry(e) \in Seq(Text)
           /\ \E H, B \in Nat : /\ H = Len(Lines(HeadingText(e))) /\ B = Len(Lines(e.note))
                                /\ LogLaid(RenderEntry(e), e, H, B)
           /\ \A i \in 1 .. Len(RenderEntry(e)) : Unbroken(RenderEntry(e)[i])
<1>1. PICK h \in Seq(Text), H \in Nat :
         /\ h = Lines(HeadingText(e)) /\ H = Len(h) /\ H >= 1
         /\ \A i \in 1 .. H : Unbroken(h[i])
  <2>1. HeadingText(e) \in Text
    <3>1. PICK T \in Nat : T = Len(e.title)
      <4>1. e.title \in Seq(Words)
        BY DEF LogEntry, Text
      <4>2. Len(e.title) \in Nat
        BY ONLY <4>1
      <4> QED BY ONLY <4>2
    <3> QED BY <3>1, HeadLayout
  <2>2. /\ Lines(HeadingText(e)) \in Seq(Text) /\ Len(Lines(HeadingText(e))) >= 1
        /\ \A i \in 1 .. Len(Lines(HeadingText(e))) : Unbroken(Lines(HeadingText(e))[i])
    BY ONLY <2>1, LinesUnbroken
  <2>3. Len(Lines(HeadingText(e))) \in Nat
    BY ONLY <2>2
  <2> QED BY ONLY <2>2, <2>3
<1>2. PICK b \in Seq(Text), B \in Nat :
         b = Lines(e.note) /\ B = Len(b) /\ \A i \in 1 .. B : Unbroken(b[i])
  <2>1. e.note \in Text
    BY DEF LogEntry
  <2>2. Lines(e.note) \in Seq(Text) /\ \A i \in 1 .. Len(Lines(e.note)) : Unbroken(Lines(e.note)[i])
    BY ONLY <2>1, LinesUnbroken
  <2>3. Len(Lines(e.note)) \in Nat
    BY ONLY <2>2
  <2> QED BY ONLY <2>2, <2>3
<1>3. PICK c \in Seq(Text) : c = << <<>> >> /\ Len(c) = 1 /\ c[1] = <<>> /\ Unbroken(c[1])
  <2>1. PICK line \in Text : line = <<>>
    <3>1. <<>> \in Seq(Words)
      OBVIOUS
    <3> QED BY <3>1 DEF Text
  <2>2. <<line>> \in Seq(Text) /\ Len(<<line>>) = 1 /\ <<line>>[1] = line
    BY ONLY line \in Text
  <2>3. Unbroken(<<>>)
    BY DEF Unbroken
  <2> QED BY ONLY <2>1, <2>2, <2>3
<1>4. PICK R : R = RenderEntry(e)
  OBVIOUS
<1>5. PICK x, y : x = h \o c /\ y = x \o b /\ R = y \o c
  BY <1>1, <1>2, <1>3, <1>4 DEF RenderEntry
<1>6. PICK X \in Nat : X = H + 1
  OBVIOUS
<1>7. PICK Y \in Nat : Y = X + B
  OBVIOUS
<1>8. /\ x \in Seq(Text) /\ Len(x) = X
      /\ (\A i \in 1 .. H : x[i] = h[i]) /\ \A i \in 1 .. 1 : x[H + i] = c[i]
  BY ONLY <1>1, <1>3, <1>5, <1>6, CatAt, 1 \in Nat
<1>9. /\ y \in Seq(Text) /\ Len(y) = Y
      /\ (\A i \in 1 .. X : y[i] = x[i]) /\ \A i \in 1 .. B : y[X + i] = b[i]
  <2>1. Len(x) = X /\ Len(b) = B /\ y = x \o b /\ x \in Seq(Text)
    BY ONLY <1>2, <1>5, <1>8
  <2>2. /\ y \in Seq(Text) /\ Len(y) = X + B
        /\ (\A i \in 1 .. X : y[i] = x[i]) /\ \A i \in 1 .. B : y[X + i] = b[i]
    <3>1. Len(x) = X
      BY ONLY <2>1
    <3>2. Len(b) = B
      BY ONLY <2>1
    <3>3. y = x \o b
      BY ONLY <2>1
    <3>4. x \in Seq(Text)
      BY ONLY <2>1
    <3>5a. y \in Seq(Text)
      BY ONLY <3>3, <3>4, b \in Seq(Text)
    <3>5b. Len(y) = Len(x) + Len(b)
      BY ONLY <3>3, <3>4, b \in Seq(Text)
    <3>5. y \in Seq(Text) /\ Len(y) = X + B
      BY ONLY <3>1, <3>2, <3>5a, <3>5b
    <3>6. \A i \in 1 .. X : y[i] = x[i]
      BY ONLY <3>1, <3>2, <3>3, <3>4, X \in Nat, B \in Nat, b \in Seq(Text)
    <3>7. \A i \in 1 .. B : y[X + i] = b[i]
      BY ONLY <3>1, <3>2, <3>3, <3>4, X \in Nat, B \in Nat, b \in Seq(Text)
    <3> QED BY ONLY <3>5, <3>6, <3>7
  <2> QED BY ONLY <1>7, <2>2
<1>10. /\ R \in Seq(Text) /\ Len(R) = Y + 1
       /\ (\A i \in 1 .. Y : R[i] = y[i]) /\ \A i \in 1 .. 1 : R[Y + i] = c[i]
  <2>1. Len(y) = Y /\ y \in Seq(Text)
    BY ONLY <1>9
  <2>2. R = y \o c /\ Len(c) = 1
    BY ONLY <1>3, <1>5
  <2>a. Len(y) = Y
    BY ONLY <2>1
  <2>b. Len(c) = 1
    BY ONLY <2>2
  <2>c. R = y \o c
    BY ONLY <2>2
  <2>d. y \in Seq(Text)
    BY ONLY <2>1
  <2>3. R \in Seq(Text)
    BY ONLY <2>c, <2>d, c \in Seq(Text)
  <2>4. Len(R) = Y + 1
    <3>1. Len(R) = Len(y) + Len(c)
      BY ONLY <2>c, <2>d, c \in Seq(Text)
    <3> QED BY ONLY <2>a, <2>b, <3>1
  <2>5. \A i \in 1 .. Y : R[i] = y[i]
    BY ONLY <2>a, <2>b, <2>c, <2>d, Y \in Nat, c \in Seq(Text)
  <2>6. \A i \in 1 .. 1 : R[Y + i] = c[i]
    <3>1. \A i \in 1 .. Len(c) : (y \o c)[Len(y) + i] = c[i]
      BY ONLY <2>d, c \in Seq(Text)
    <3> QED BY ONLY <2>a, <2>b, <2>c, <3>1
  <2> QED BY ONLY <2>3, <2>4, <2>5, <2>6
<1>11. Len(R) = H + B + 2
  BY ONLY <1>6, <1>7, <1>10, H \in Nat, B \in Nat
<1>12. \A i \in 1 .. H : R[i] = h[i]
  <2> TAKE i \in 1 .. H
  <2>1. i \in 1 .. X /\ i \in 1 .. Y
    BY ONLY <1>6, <1>7, H \in Nat, B \in Nat, i \in 1 .. H
  <2> QED BY <1>8, <1>9, <1>10, <2>1
<1>13. R[H + 1] = <<>>
  <2>1. H + 1 \in 1 .. X /\ H + 1 \in 1 .. Y /\ 1 \in 1 .. 1
    BY ONLY <1>6, <1>7, H \in Nat, B \in Nat
  <2> QED BY <1>3, <1>8, <1>9, <1>10, <2>1
<1>14. \A i \in 1 .. B : R[H + 1 + i] = b[i]
  <2> TAKE i \in 1 .. B
  <2>1. X + i \in 1 .. Y /\ H + 1 + i = X + i
    BY ONLY <1>6, <1>7, H \in Nat, B \in Nat, i \in 1 .. B
  <2> QED BY <1>9, <1>10, <2>1
<1>15. R[H + B + 2] = <<>>
  <2>1. H + B + 2 = Y + 1 /\ 1 \in 1 .. 1
    BY ONLY <1>6, <1>7, H \in Nat, B \in Nat
  <2> QED BY <1>3, <1>10, <2>1
<1>16. ASSUME NEW i \in 1 .. Len(R) PROVE Unbroken(R[i])
  <2>1. i \in 1 .. H + B + 2
    BY <1>11
  <2>2. CASE i \in 1 .. H
    BY <1>1, <1>12, <2>2
  <2>3. CASE i = H + 1 \/ i = H + B + 2
    BY <1>3, <1>13, <1>15, <2>3
  <2>4. CASE ~(i \in 1 .. H) /\ ~(i = H + 1 \/ i = H + B + 2)
    <3>1. PICK j \in 1 .. B : i = H + 1 + j
      <4>1. i - (H + 1) \in 1 .. B /\ i = H + 1 + (i - (H + 1))
        BY ONLY <2>1, <2>4, H \in Nat, B \in Nat
      <4> QED BY ONLY <4>1
    <3> QED BY <1>2, <1>14, <3>1
  <2> QED BY <2>2, <2>3, <2>4
<1>17. LogLaid(R, e, H, B)
  BY ONLY <1>1, <1>2, <1>11, <1>12, <1>13, <1>14, <1>15 DEF LogLaid
<1> QED BY ONLY <1>1, <1>2, <1>4, <1>10, <1>16, <1>17

\* The first line of an entry is a heading, unless its title begins with a line
\* break.
LEMMA HeadLine ==
    ASSUME NEW e \in LogEntry, e.op # "NL", ~Begins(e.title, "NL")
    PROVE  IsHeading(RenderEntry(e)[1])
<1>1. PICK T \in Nat : T = Len(e.title) /\ (T # 0 => e.title # <<>>)
  <2>1. e.title \in Seq(Words)
    BY DEF LogEntry, Text
  <2>2. Len(e.title) \in Nat /\ (Len(e.title) # 0 => e.title # <<>>)
    BY ONLY <2>1
  <2> QED BY ONLY <2>2
<1>2. PICK h \in Text : h = HeadingText(e) /\ HeadLaid(h, e, T)
  BY <1>1, HeadLayout
<1>3. /\ h[1] = "##D" /\ h[2] = e.op
      /\ T = 0 => Len(h) = 2
      /\ T # 0 => Len(h) = T + 3 /\ h[3] = " | " /\ h[4] = e.title[1]
  <2>1. \A i \in 1 .. T : T # 0 => h[3 + i] = e.title[i]
    BY ONLY <1>2 DEF HeadLaid
  <2>2. T # 0 => 1 \in 1 .. T /\ 3 + 1 = 4
    OBVIOUS
  <2>3. T # 0 => h[4] = e.title[1]
    BY ONLY <2>1, <2>2
  <2> QED BY ONLY <1>2, <2>3 DEF HeadLaid
<1>4. T # 0 => h[4] # "NL"
  BY <1>1, <1>3 DEF Begins
<1>5. PICK b \in Seq(Nat) :
        /\ Len(b) >= 2 /\ b[1] = 0 /\ b[Len(b)] = Len(h) + 1
        /\ \A i, j \in 1 .. Len(b) : i < j => b[i] < b[j]
        /\ \A i \in 2 .. Len(b) - 1 : b[i] \in 1 .. Len(h) /\ h[b[i]] = "NL"
        /\ Lines(h) \in Seq(Text) /\ Len(Lines(h)) = Len(b) - 1
        /\ \A n \in 1 .. Len(b) - 1 :
              /\ Len(Lines(h)[n]) = b[n + 1] - b[n] - 1
              /\ \A m \in 1 .. Len(Lines(h)[n]) : Lines(h)[n][m] = h[b[n] + m]
  BY LinesAre
<1>6. PICK n \in Nat : n = Len(b) /\ n >= 2
  <2>1. Len(b) \in Nat
    BY ONLY b \in Seq(Nat)
  <2> QED BY ONLY <1>5, <2>1
<1>7. PICK c \in Nat : c = b[2] /\ 0 < c
  <2>1. 1 \in 1 .. n /\ 2 \in 1 .. n /\ 1 < 2
    BY <1>6
  <2>2. b[2] \in Nat
    BY ONLY b \in Seq(Nat), <1>6, <2>1
  <2>3. b[1] < b[2]
    BY ONLY <1>5, <1>6, <2>1
  <2> QED BY <1>5, <2>2, <2>3
<1>8. PICK N \in Nat : N = Len(h)
  <2>1. Len(h) \in Nat
    BY ONLY h \in Text DEF Text
  <2> QED BY ONLY <2>1
<1>9. (c \in 1 .. N /\ h[c] = "NL") \/ c = N + 1
  <2>1. CASE n = 2
    BY <1>5, <1>6, <1>7, <1>8, <2>1
  <2>2. CASE n # 2
    <3>1. 2 \in 2 .. Len(b) - 1
      BY ONLY <1>6, <2>2
    <3> QED BY ONLY <1>5, <1>7, <1>8, <3>1
  <2> QED BY <2>1, <2>2
<1>10. c # 1 /\ c # 2
  <2>1. h[1] # "NL" /\ h[2] # "NL"
    BY <1>3
  <2>2. N >= 2
    <3>1. T = 0 => N = 2
      BY ONLY <1>3, <1>8
    <3>2. T # 0 => N = T + 3
      BY ONLY <1>3, <1>8
    <3> QED BY ONLY <3>1, <3>2, T \in Nat
  <2>3. c = 1 => h[c] # "NL" /\ c # N + 1
    BY ONLY <2>1, <2>2, N \in Nat
  <2>4. c = 2 => h[c] # "NL" /\ c # N + 1
    BY ONLY <2>1, <2>2, N \in Nat
  <2> QED BY ONLY <1>9, <2>3, <2>4
<1>11. PICK line \in Text : line = Lines(h)[1]
  <2>1. 1 \in 1 .. Len(b) - 1
    BY <1>6
  <2> QED BY ONLY <1>5, <2>1
<1>12. Len(line) = c - 1 /\ \A m \in 1 .. Len(line) : line[m] = h[m]
  <2>1. 1 \in 1 .. Len(b) - 1 /\ 1 + 1 = 2
    BY <1>6
  <2>2. Len(line) = b[2] - b[1] - 1 /\ \A m \in 1 .. Len(line) : line[m] = h[b[1] + m]
    BY ONLY <1>5, <1>11, <2>1
  <2>3. Len(line) = c - 0 - 1 /\ \A m \in 1 .. Len(line) : line[m] = h[0 + m]
    BY ONLY <1>5, <1>7, <2>2
  <2>4. Len(line) = c - 1
    BY ONLY <2>3, c \in Nat
  <2>5. \A m \in 1 .. Len(line) : line[m] = h[m]
    <3> TAKE m \in 1 .. Len(line)
    <3>1. 0 + m = m
      BY ONLY <2>4, c \in Nat, m \in 1 .. Len(line)
    <3> QED BY ONLY <2>3, <3>1, m \in 1 .. Len(line)
  <2> QED BY <2>4, <2>5
<1>13. PICK K \in Nat : K = Len(line) /\ K = c - 1 /\ K >= 2
  <2>1. c - 1 \in Nat /\ c - 1 >= 2
    BY ONLY <1>7, <1>10, c \in Nat
  <2> QED BY ONLY <1>12, <2>1
<1>14. Begins(line, "##D")
  <2>1. 1 \in 1 .. K
    BY <1>13
  <2>2. line[1] = "##D"
    BY ONLY <1>3, <1>12, <1>13, <2>1
  <2>3. line # <<>>
    <3>1. line = <<>> => Len(line) = 0
      OBVIOUS
    <3>2. Len(line) # 0
      BY ONLY <1>13
    <3> QED BY ONLY <3>1, <3>2
  <2> QED BY <2>2, <2>3 DEF Begins
<1>15. K = 2 \/ (K > 3 /\ line[3] = " | ")
  <2>1. CASE T = 0
    <3>1. N = 2
      BY <1>3, <1>8, <2>1
    <3>2. c = 3
      BY ONLY <1>7, <1>9, <1>10, <3>1, c \in Nat
    <3> QED BY ONLY <1>13, <3>2
  <2>2. CASE T # 0
    <3>1. N = T + 3 /\ h[3] = " | " /\ h[3] # "NL" /\ h[4] # "NL"
      BY <1>3, <1>4, <1>8, <2>2
    <3>2. c # 3 /\ c # 4
      <4>1. c = 3 => h[c] # "NL"
        BY ONLY <3>1
      <4>2. c = 4 => h[c] # "NL"
        BY ONLY <3>1
      <4>3. N = T + 3
        BY ONLY <3>1
      <4>4. N + 1 # 3 /\ N + 1 # 4
        BY ONLY <2>2, <4>3, T \in Nat
      <4> QED BY ONLY <1>9, <4>1, <4>2, <4>4
    <3>3. K > 3
      BY ONLY <1>7, <1>10, <1>13, <3>2, c \in Nat
    <3>4. 3 \in 1 .. K
      BY <3>3
    <3>5. line[3] = h[3]
      BY ONLY <1>12, <1>13, <3>4
    <3> QED BY <3>1, <3>3, <3>5
  <2> QED BY <2>1, <2>2
<1>16. RenderEntry(e)[1] = line
  <2>1. PICK H \in Nat : H >= 1 /\ \A i \in 1 .. H : RenderEntry(e)[i] = Lines(HeadingText(e))[i]
    BY RenderEntryIs DEF LogLaid
  <2>2. 1 \in 1 .. H
    BY <2>1
  <2> QED BY ONLY <1>2, <1>11, <2>1, <2>2
<1> QED BY ONLY <1>13, <1>14, <1>15, <1>16 DEF IsHeading

\* The heading of an entry without a line break in its title, read back.
LEMMA HeadingBack ==
    ASSUME NEW e \in LogEntry, e.op # "NL", Free(e.title, {"NL"})
    PROVE  /\ Lines(HeadingText(e)) = <<HeadingText(e)>>
           /\ HeadingText(e)[2] = e.op
           /\ SubSeq(HeadingText(e), 4, Len(HeadingText(e))) = e.title
<1>1. PICK t \in Seq(Words), T \in Nat : t = e.title /\ T = Len(t) /\ \A i \in 1 .. T : t[i] # "NL"
  <2>1. PICK t \in Text : t = e.title
    BY DEF LogEntry
  <2>2. \A i \in 1 .. Len(t) : t[i] # "NL"
    BY <2>1, FreeIs
  <2>3. t \in Seq(Words)
    BY DEF Text
  <2>4. Len(t) \in Nat
    BY ONLY <2>3
  <2> QED BY ONLY <2>1, <2>2, <2>3, <2>4
<1>2. PICK h \in Text : h = HeadingText(e) /\ HeadLaid(h, e, T)
  BY <1>1, HeadLayout
<1>3. /\ h[1] = "##D" /\ h[2] = e.op
      /\ T = 0 => Len(h) = 2
      /\ T # 0 => Len(h) = T + 3 /\ h[3] = " | "
      /\ \A i \in 1 .. T : h[3 + i] = t[i]
  <2>1. \A i \in 1 .. T : T # 0 => h[3 + i] = e.title[i]
    BY ONLY <1>2 DEF HeadLaid
  <2>2. \A i \in 1 .. T : T # 0
    BY ONLY T \in Nat
  <2>3. \A i \in 1 .. T : h[3 + i] = t[i]
    BY ONLY <1>1, <2>1, <2>2
  <2> QED BY ONLY <1>2, <2>3 DEF HeadLaid
<1>4. \A k \in 1 .. Len(h) : h[k] # "NL"
  <2> TAKE k \in 1 .. Len(h)
  <2>1. CASE T = 0
    <3>1. Len(h) = 2
      BY ONLY <1>3, <2>1
    <3>2. k = 1 \/ k = 2
      BY ONLY <3>1, k \in 1 .. Len(h)
    <3> QED BY <1>3, <3>2
  <2>2. CASE T # 0
    <3>1. Len(h) = T + 3 /\ h[3] = " | "
      BY ONLY <1>3, <2>2
    <3>2. CASE k = 1 \/ k = 2 \/ k = 3
      BY <1>3, <3>1, <3>2
    <3>3. CASE ~(k = 1 \/ k = 2 \/ k = 3)
      <4>0. k \in 1 .. T + 3
        BY ONLY <3>1, k \in 1 .. Len(h)
      <4>1. PICK i \in 1 .. T : k = 3 + i
        <5>1. k - 3 \in 1 .. T /\ k = 3 + (k - 3)
          BY ONLY <3>3, <4>0, T \in Nat
        <5> QED BY ONLY <5>1
      <4> QED BY ONLY <1>1, <1>3, <4>1
    <3> QED BY <3>2, <3>3
  <2> QED BY <2>1, <2>2
<1>5. Lines(h) = <<h>>
  BY <1>4, WholeLine
<1>6. SubSeq(h, 4, Len(h)) = t
  <2>1. CASE T = 0
    <3>1. Len(h) = 2
      BY ONLY <1>3, <2>1
    <3>2. SubSeq(h, 4, 2) = <<>>
      <4>1. h \in Seq(Words)
        BY ONLY h \in Text DEF Text
      <4> QED BY ONLY <4>1
    <3>3. t = <<>>
      <4>1. Len(t) = 0
        BY ONLY <1>1, <2>1
      <4> QED BY ONLY <4>1, t \in Seq(Words)
    <3> QED BY ONLY <3>1, <3>2, <3>3
  <2>2. CASE T # 0
    <3>1. SubSeq(h, 3 + 1, 3 + Len(t)) = t
      <4>1. h \in Seq(Words)
        BY ONLY h \in Text DEF Text
      <4>2. \A i \in 1 .. Len(t) : h[3 + i] = t[i]
        BY ONLY <1>1, <1>3
      <4> QED BY ONLY <4>1, <4>2, PartIs, 3 \in Nat, t \in Seq(Words)
    <3>2. Len(h) = T + 3
      BY ONLY <1>3, <2>2
    <3>3. 3 + 1 = 4 /\ 3 + Len(t) = Len(h)
      BY ONLY <1>1, <3>2, T \in Nat
    <3> QED BY ONLY <3>1, <3>3
  <2> QED BY <2>1, <2>2
<1> QED BY ONLY <1>1, <1>2, <1>3, <1>5, <1>6

-----------------------------------------------------------------------------
(* internal/log: ReadLog.                                                  *)

\* r holds an entry for each heading, at the lines that g lists in order; the
\* description of each is what is below it, up to the next heading.
HeadsOf(g, lines, r) ==
    /\ g \in Seq(1 .. Len(lines)) /\ Len(r) = Len(g)
    /\ \A n \in 1 .. Len(g) : /\ IsHeading(lines[g[n]])
                              /\ r[n].op = lines[g[n]][2]
                              /\ r[n].title = SubSeq(lines[g[n]], 4, Len(lines[g[n]]))
    /\ \A i, j \in 1 .. Len(g) : i < j => g[i] < g[j]
    /\ \A k \in 1 .. Len(lines) : IsHeading(lines[k]) => \E i \in 1 .. Len(g) : g[i] = k
    /\ \A n \in 1 .. Len(g) :
          r[n].note = NoteOf(SubSeq(lines, g[n] + 1,
                                    IF n = Len(g) THEN Len(lines) ELSE g[n + 1] - 1))

\* What a heading line holds.
LEMMA HeadingHolds ==
    ASSUME NEW line \in Text, IsHeading(line)
    PROVE  line[2] \in Words /\ SubSeq(line, 4, Len(line)) \in Text
           /\ (Unbroken(line) => line[2] # "NL" /\ Free(SubSeq(line, 4, Len(line)), {"NL"}))
<1>1. line \in Seq(Words)
  BY DEF Text
<1>2. PICK n \in Nat : n = Len(line)
  BY ONLY <1>1
<1>3. 2 \in 1 .. n
  <2>1. Len(line) = 2 \/ Len(line) > 3
    BY ONLY IsHeading(line) DEF IsHeading
  <2> QED BY ONLY <1>2, <2>1
<1>4. line[2] \in Words
  BY ONLY <1>1, <1>2, <1>3
<1>5. PICK t \in Seq(Words) : t = SubSeq(line, 4, n)
  <2>1. \A i \in 4 .. n : line[i] \in Words
    BY ONLY <1>1, <1>2
  <2>2. SubSeq(line, 4, n) \in Seq(Words)
    BY ONLY <1>1, <1>2, <2>1, n \in Nat
  <2> QED BY ONLY <2>2
<1>6. ASSUME Unbroken(line), NEW k \in 1 .. Len(t) PROVE t[k] # "NL"
  <2>1. Len(t) = (IF n >= 4 THEN n - 3 ELSE 0)
    BY ONLY <1>1, <1>2, <1>5
  <2>2. 3 + k \in 1 .. n /\ t[k] = line[3 + k]
    <3>1. 3 + k \in 1 .. n
      BY ONLY <2>1, n \in Nat, k \in 1 .. Len(t)
    <3>2. t[k] = line[4 + k - 1]
      BY ONLY <1>1, <1>2, <1>5, k \in 1 .. Len(t)
    <3>3. 4 + k - 1 = 3 + k
      BY ONLY <2>1, n \in Nat, k \in 1 .. Len(t)
    <3> QED BY ONLY <3>1, <3>2, <3>3
  <2> QED BY ONLY <1>2, <1>6, <2>2 DEF Unbroken
<1>7. t \in Text
  BY DEF Text
<1>8. Unbroken(line) => line[2] # "NL" /\ Free(t, {"NL"})
  <2>1. Unbroken(line) => line[2] # "NL"
    BY ONLY <1>2, <1>3 DEF Unbroken
  <2>2. Unbroken(line) => \A k \in 1 .. Len(t) : t[k] \notin {"NL"}
    BY <1>6
  <2> QED BY ONLY <1>7, <2>1, <2>2, FreeIs
<1> QED BY ONLY <1>2, <1>4, <1>5, <1>7, <1>8

\* ReadLog returns one entry for each heading, in order.
LEMMA ReadLogIs ==
    ASSUME NEW lines \in Seq(Text)
    PROVE  /\ ReadLog(lines) \in Seq(LogEntry)
           /\ \E g : HeadsOf(g, lines, ReadLog(lines))
           /\ (\A k \in 1 .. Len(lines) : Unbroken(lines[k]))
                 => \A n \in 1 .. Len(ReadLog(lines)) :
                       ReadLog(lines)[n].op # "NL" /\ Free(ReadLog(lines)[n].title, {"NL"})
<1> DEFINE K == {k \in DOMAIN lines : IsHeading(lines[k])}
           heads == InOrder(K)
<1>1. PICK N \in Nat : N = Len(lines) /\ DOMAIN lines = 1 .. N
  OBVIOUS
<1>2. K \subseteq 1 .. N /\ (\A k \in K : IsHeading(lines[k]))
      /\ \A k \in 1 .. N : IsHeading(lines[k]) => k \in K
  BY <1>1
<1>3. PICK g : g = heads
  OBVIOUS
<1>4. ReadLog(lines) =
        [n \in DOMAIN g |->
            [op |-> lines[g[n]][2],
             title |-> SubSeq(lines[g[n]], 4, Len(lines[g[n]])),
             note |-> NoteOf(SubSeq(lines, g[n] + 1,
                                    IF n = Len(g) THEN Len(lines) ELSE g[n + 1] - 1))]]
  BY <1>3, Zenon DEF ReadLog
<1> HIDE DEF K
<1>5. IsFiniteSet(K) /\ K \subseteq Nat
  BY ONLY <1>2, FiniteUpto, N \in Nat
<1>6. /\ g \in Seq(K)
      /\ \A i, j \in 1 .. Len(g) : i < j => g[i] < g[j]
      /\ \A k \in K : \E i \in 1 .. Len(g) : g[i] = k
  BY ONLY <1>3, <1>5, InOrderIs
<1> HIDE DEF heads
<1>7. PICK G \in Nat : G = Len(g) /\ DOMAIN g = 1 .. G
  BY ONLY <1>6
<1>8. \A n \in 1 .. G : g[n] \in K /\ g[n] \in 1 .. N /\ IsHeading(lines[g[n]])
  <2> TAKE n \in 1 .. G
  <2>1. PICK k \in K : k = g[n]
    BY ONLY <1>6, <1>7, n \in 1 .. G
  <2>2. k \in 1 .. N /\ IsHeading(lines[k])
    BY ONLY <1>2, k \in K
  <2> QED BY ONLY <2>1, <2>2
<1>9. g \in Seq(1 .. N)
  BY ONLY <1>6, <1>7, <1>8
<1>10. PICK r : r = ReadLog(lines)
  OBVIOUS
<1> DEFINE End(n) == IF n = G THEN N ELSE g[n + 1] - 1
<1>11. ASSUME NEW n \in 1 .. G
       PROVE  r[n] = [op |-> lines[g[n]][2],
                      title |-> SubSeq(lines[g[n]], 4, Len(lines[g[n]])),
                      note |-> NoteOf(SubSeq(lines, g[n] + 1, End(n)))]
  BY ONLY <1>1, <1>4, <1>7, <1>10, n \in 1 .. G
<1>12. ASSUME NEW n \in 1 .. G
       PROVE  End(n) \in 0 .. N /\ g[n] + 1 \in Nat /\ g[n] + 1 >= 1
  <2>1. CASE n = G
    BY <1>8, <2>1
  <2>2. CASE n # G
    <3>1. n + 1 \in 1 .. G
      BY <2>2
    <3>2. g[n + 1] \in 1 .. N /\ g[n] \in 1 .. N
      BY <1>8, <3>1
    <3> QED BY <2>2, <3>2
  <2> QED BY <2>1, <2>2
<1> HIDE DEF End
<1>13. ASSUME NEW n \in 1 .. G
       PROVE  /\ r[n] \in LogEntry
              /\ Unbroken(lines[g[n]]) => r[n].op # "NL" /\ Free(r[n].title, {"NL"})
  <2>1. PICK line \in Text : line = lines[g[n]] /\ IsHeading(line)
    BY ONLY <1>1, <1>8, lines \in Seq(Text), n \in 1 .. G
  <2>2. line[2] \in Words /\ SubSeq(line, 4, Len(line)) \in Text
        /\ (Unbroken(line) => line[2] # "NL" /\ Free(SubSeq(line, 4, Len(line)), {"NL"}))
    BY ONLY <2>1, HeadingHolds
  <2>3. PICK a \in Nat, z \in 0 .. N : a = g[n] + 1 /\ z = End(n) /\ a >= 1
    BY ONLY <1>12, n \in 1 .. G
  <2>4. SubSeq(lines, a, z) \in Seq(Text)
    <3>1. \A i \in a .. z : i \in 1 .. Len(lines)
      BY ONLY <1>1, <2>3, N \in Nat, a \in Nat
    <3> QED BY ONLY <3>1, lines \in Seq(Text), a \in Nat, z \in 0 .. N, N \in Nat
  <2>5. NoteOf(SubSeq(lines, a, z)) \in Text
    BY ONLY <2>4, NoteTypes
  <2>6. r[n] = [op |-> line[2], title |-> SubSeq(line, 4, Len(line)), note |-> NoteOf(SubSeq(lines, a, z))]
    BY ONLY <1>11, <2>1, <2>3, n \in 1 .. G
  <2>7. r[n] \in LogEntry
    BY ONLY <2>2, <2>5, <2>6 DEF LogEntry
  <2>8. r[n].op = line[2] /\ r[n].title = SubSeq(line, 4, Len(line))
    BY ONLY <2>6
  <2> QED BY ONLY <2>1, <2>2, <2>7, <2>8
<1>14. r \in Seq(LogEntry) /\ Len(r) = G
  <2>1. r = [n \in 1 .. G |-> r[n]]
    BY ONLY <1>4, <1>7, <1>10
  <2> QED BY ONLY <1>13, <2>1, G \in Nat
<1>15. HeadsOf(g, lines, r)
  <2>1. \A n \in 1 .. G : /\ r[n].op = lines[g[n]][2]
                          /\ r[n].title = SubSeq(lines[g[n]], 4, Len(lines[g[n]]))
                          /\ r[n].note = NoteOf(SubSeq(lines, g[n] + 1, End(n)))
    <3> TAKE n \in 1 .. G
    <3>1. PICK a, t, d : a = lines[g[n]][2] /\ t = SubSeq(lines[g[n]], 4, Len(lines[g[n]]))
                         /\ d = NoteOf(SubSeq(lines, g[n] + 1, End(n)))
      OBVIOUS
    <3>2. r[n] = [op |-> a, title |-> t, note |-> d]
      BY ONLY <1>11, <3>1, n \in 1 .. G
    <3> QED BY ONLY <3>1, <3>2
  <2>2. \A k \in 1 .. N : IsHeading(lines[k]) => \E i \in 1 .. G : g[i] = k
    BY ONLY <1>2, <1>6, <1>7
  <2>3. \A n \in 1 .. G : End(n) = IF n = G THEN N ELSE g[n + 1] - 1
    BY ONLY TRUE DEF End
  <2>4. \A n \in 1 .. G : r[n].note = NoteOf(SubSeq(lines, g[n] + 1, IF n = G THEN N ELSE g[n + 1] - 1))
    BY ONLY <2>1, <2>3
  <2>5. Len(r) = G
    BY ONLY <1>14
  <2>6. \A i, j \in 1 .. G : i < j => g[i] < g[j]
    BY ONLY <1>6, <1>7
  <2>7. \A n \in 1 .. G : IsHeading(lines[g[n]])
    BY ONLY <1>8
  <2>8. N = Len(lines) /\ G = Len(g)
    BY ONLY <1>1, <1>7
  <2> QED BY ONLY <1>9, <2>1, <2>2, <2>4, <2>5, <2>6, <2>7, <2>8 DEF HeadsOf
<1>16. ASSUME \A k \in 1 .. Len(lines) : Unbroken(lines[k]), NEW n \in 1 .. Len(r)
       PROVE  r[n].op # "NL" /\ Free(r[n].title, {"NL"})
  <2>1. n \in 1 .. G
    BY ONLY <1>14, n \in 1 .. Len(r)
  <2>2. Unbroken(lines[g[n]])
    BY ONLY <1>1, <1>8, <1>16, <2>1
  <2> QED BY ONLY <1>13, <2>1, <2>2
<1> QED BY ONLY <1>10, <1>14, <1>15, <1>16

\* The lines of an entry whose description, of B lines, can be read back.
BlockOf(R, e, B) ==
    /\ B = Len(Lines(e.note)) /\ Len(R) = B + 3
    /\ R[1] = HeadingText(e) /\ R[2] = <<>> /\ R[B + 3] = <<>>
    /\ \A i \in 1 .. B : R[2 + i] = Lines(e.note)[i]
    /\ \A i \in 2 .. B + 3 : ~IsHeading(R[i])

\* A clean entry is written as a block with one heading, its first line.
LEMMA EntryBlock ==
    ASSUME NEW e \in LogEntry, e.op # "NL", CleanNote(e)
    PROVE  \E B \in Nat : BlockOf(RenderEntry(e), e, B)
<1>1. Free(e.title, {"NL"}) /\ \A line \in ToSet(Lines(e.note)) : ~IsHeading(line)
  BY DEF CleanNote
<1>2. PICK R : R = RenderEntry(e)
  OBVIOUS
<1>3. PICK H \in Nat, B \in Nat :
         H = Len(Lines(HeadingText(e))) /\ B = Len(Lines(e.note)) /\ LogLaid(R, e, H, B)
  BY <1>2, RenderEntryIs
<1>4. Lines(HeadingText(e)) = <<HeadingText(e)>>
  BY <1>1, HeadingBack
<1>5. H = 1
  <2>1. PICK h : h = HeadingText(e)
    OBVIOUS
  <2>2. Len(<<h>>) = 1
    OBVIOUS
  <2> QED BY <1>3, <1>4, <2>1, <2>2
<1>6. /\ Len(R) = 1 + B + 2
      /\ \A i \in 1 .. 1 : R[i] = Lines(HeadingText(e))[i]
      /\ R[1 + 1] = <<>>
      /\ \A i \in 1 .. B : R[1 + 1 + i] = Lines(e.note)[i]
      /\ R[1 + B + 2] = <<>>
  BY ONLY <1>3, <1>5 DEF LogLaid
<1>7. 1 + B + 2 = B + 3 /\ 1 + 1 = 2 /\ 1 \in 1 .. 1
  OBVIOUS
<1>8. Len(R) = B + 3 /\ R[2] = <<>> /\ R[B + 3] = <<>> /\ \A i \in 1 .. B : R[2 + i] = Lines(e.note)[i]
  BY ONLY <1>6, <1>7
<1>9. R[1] = HeadingText(e)
  <2>1. PICK h : h = HeadingText(e)
    OBVIOUS
  <2>2. R[1] = <<h>>[1]
    BY ONLY <1>4, <1>6, <1>7, <2>1
  <2> QED BY ONLY <2>1, <2>2
<1>10. ASSUME NEW i \in 2 .. B + 3 PROVE ~IsHeading(R[i])
  <2>1. CASE i = 2 \/ i = B + 3
    <3>1. R[i] = <<>>
      BY <1>8, <2>1
    <3> QED BY <3>1 DEF IsHeading, Begins
  <2>2. CASE ~(i = 2 \/ i = B + 3)
    <3>1. PICK j \in 1 .. B : i = 2 + j
      <4>1. i - 2 \in 1 .. B /\ i = 2 + (i - 2)
        BY ONLY <2>2, B \in Nat, i \in 2 .. B + 3
      <4> QED BY ONLY <4>1
    <3>2. Lines(e.note) \in Seq(Text)
      <4>1. e.note \in Text
        BY DEF LogEntry
      <4> QED BY <4>1, LinesAre
    <3>3. Lines(e.note)[j] \in ToSet(Lines(e.note))
      <4>1. DOMAIN Lines(e.note) = 1 .. B
        BY ONLY <1>3, <3>2
      <4> QED BY <4>1 DEF ToSet
    <3>4. R[i] = Lines(e.note)[j]
      BY <1>8, <3>1
    <3> QED BY <1>1, <3>3, <3>4
  <2> QED BY <2>1, <2>2
<1>11. BlockOf(R, e, B)
  BY ONLY <1>3, <1>8, <1>9, <1>10 DEF BlockOf
<1> QED BY <1>2, <1>11

\* The lines below the heading are read as the description.
LEMMA BodyBack ==
    ASSUME NEW e \in LogEntry, CleanNote(e), NEW R, NEW B \in Nat, BlockOf(R, e, B),
           NEW lines \in Seq(Text), NEW a \in Nat, a + B + 3 <= Len(lines),
           \A i \in 1 .. B + 3 : lines[a + i] = R[i]
    PROVE  NoteOf(SubSeq(lines, a + 1 + 1, a + B + 3)) = e.note
<1>1. PICK c \in Nat, n \in Nat : c = a + 1 /\ n = B + 2
  OBVIOUS
<1>2. c + n = a + B + 3 /\ c + n <= Len(lines)
  <2>1. c + n = a + B + 3
    BY ONLY <1>1, a \in Nat, B \in Nat
  <2> QED BY ONLY <2>1, a + B + 3 <= Len(lines)
<1>3. PICK body : body = SubSeq(lines, c + 1, c + n)
  OBVIOUS
<1>4. body \in Seq(Text) /\ Len(body) = n /\ \A i \in 1 .. n : body[i] = lines[c + i]
  BY ONLY <1>2, <1>3, SubSeqIs, lines \in Seq(Text), c \in Nat, n \in Nat
<1>5. /\ B = Len(Lines(e.note)) /\ R[2] = <<>> /\ R[B + 3] = <<>>
      /\ \A i \in 1 .. B : R[2 + i] = Lines(e.note)[i]
  BY ONLY BlockOf(R, e, B) DEF BlockOf
<1>6. \A i \in 1 .. n : body[i] = R[1 + i]
  <2> TAKE i \in 1 .. n
  <2>1. 1 + i \in 1 .. B + 3 /\ c + i = a + (1 + i)
    BY ONLY <1>1, a \in Nat, B \in Nat, i \in 1 .. n
  <2>2. lines[a + (1 + i)] = R[1 + i]
    BY ONLY <2>1, \A j \in 1 .. B + 3 : lines[a + j] = R[j]
  <2> QED BY ONLY <1>4, <2>1, <2>2, i \in 1 .. n
<1>7. body[1] = <<>> /\ body[B + 2] = <<>>
  <2>1. 1 \in 1 .. n /\ B + 2 \in 1 .. n /\ 1 + 1 = 2 /\ 1 + (B + 2) = B + 3
    BY ONLY <1>1, B \in Nat
  <2> QED BY ONLY <1>5, <1>6, <2>1
<1>8. \A m \in 1 .. B : body[m + 1] = Lines(e.note)[m]
  <2> TAKE m \in 1 .. B
  <2>1. m + 1 \in 1 .. n /\ 1 + (m + 1) = 2 + m
    BY ONLY <1>1, B \in Nat, m \in 1 .. B
  <2> QED BY ONLY <1>5, <1>6, <2>1, m \in 1 .. B
<1>9. BodyOf(body, e.note)
  BY ONLY <1>1, <1>4, <1>5, <1>7, <1>8 DEF BodyOf
<1>10. NoteOf(body) = e.note
  <2>1. e.note \in Text
    BY DEF LogEntry
  <2>2. e.note = Trimmed(e.note) /\ \A line \in ToSet(Lines(e.note)) : ~Begins(line, "# ")
    BY DEF CleanNote
  <2> QED BY ONLY <1>4, <1>9, <2>1, <2>2, NoteBack
<1>11. c + 1 = a + 1 + 1
  BY ONLY <1>1
<1> QED BY ONLY <1>2, <1>3, <1>10, <1>11

Blocks(es) == [n \in DOMAIN es |-> RenderEntry(es[n])]

\* The log holds the block of each entry, one after another.
LEMMA RenderLogIs ==
    ASSUME NEW es \in Seq(LogEntry)
    PROVE  /\ RenderLog(es) \in Seq(Text)
           /\ Blocks(es) \in Seq(Seq(Text)) /\ Len(Blocks(es)) = Len(es)
           /\ \A n \in 1 .. Len(es) : Blocks(es)[n] = RenderEntry(es[n])
           /\ \E o : Offsets(o, Blocks(es), RenderLog(es))
           /\ \A k \in 1 .. Len(RenderLog(es)) : Unbroken(RenderLog(es)[k])
<1>1. PICK N \in Nat : N = Len(es) /\ DOMAIN es = 1 .. N /\ \A n \in 1 .. N : es[n] \in LogEntry
  OBVIOUS
<1>2. PICK s : s = Blocks(es) /\ s = [n \in 1 .. N |-> RenderEntry(es[n])]
  BY <1>1 DEF Blocks
<1>3. \A n \in 1 .. N : RenderEntry(es[n]) \in Seq(Text)
  BY ONLY <1>1, RenderEntryIs
<1>4. s \in Seq(Seq(Text)) /\ Len(s) = N /\ \A n \in 1 .. N : s[n] = RenderEntry(es[n])
  BY ONLY <1>2, <1>3, N \in Nat
<1>5. PICK lines \in Seq(Text) : lines = RenderLog(es) /\ \E o : Offsets(o, s, lines)
  <2>1. RenderLog(es) = FlattenSeq(s)
    BY <1>2 DEF RenderLog, Blocks
  <2> QED BY <1>4, <2>1, FlattenIs
<1>6. PICK o : Offsets(o, s, lines)
  BY <1>5
<1>7. ASSUME NEW k \in 1 .. Len(lines) PROVE Unbroken(lines[k])
  <2>1. PICK n \in 1 .. Len(s) : \E m \in Nat \ {0} : m <= Len(s[n]) /\ k = o[n] + m
    BY ONLY <1>6, k \in 1 .. Len(lines) DEF Offsets
  <2>2. PICK m \in Nat \ {0} : m <= Len(s[n]) /\ k = o[n] + m
    BY ONLY <2>1
  <2>3. lines[k] = s[n][m]
    BY ONLY <1>6, <2>2, n \in 1 .. Len(s) DEF Offsets
  <2>4. n \in 1 .. N /\ s[n] = RenderEntry(es[n]) /\ es[n] \in LogEntry
    BY ONLY <1>1, <1>4, n \in 1 .. Len(s)
  <2>5. m \in 1 .. Len(s[n])
    <3>1. Len(s[n]) \in Nat
      BY ONLY <1>3, <2>4
    <3> QED BY ONLY <2>2, <3>1
  <2>6. Unbroken(s[n][m])
    BY ONLY <2>4, <2>5, RenderEntryIs
  <2> QED BY ONLY <2>3, <2>6
<1> QED BY ONLY <1>1, <1>2, <1>4, <1>5, <1>7

\* The entries whose titles do not begin with a line break: each has its
\* heading.
Whole(es) == {n \in 1 .. Len(es) : ~Begins(es[n].title, "NL")}

\* r holds an entry for each whole entry of es, in their order, and those that
\* are clean and followed by a whole one as they were.
Relogged(g, r, es) ==
    /\ \A n \in Whole(es) : g[n] \in 1 .. Len(r)
    /\ \A m, n \in Whole(es) : m < n => g[m] < g[n]
    /\ \A n \in Whole(es) :
          CleanNote(es[n]) /\ (n < Len(es) => n + 1 \in Whole(es)) => r[g[n]] = es[n]

\* ReadLog of what RenderLog wrote.
LEMMA LogBack ==
    ASSUME NEW es \in Seq(LogEntry), \A n \in 1 .. Len(es) : es[n].op # "NL"
    PROVE  \E g : Relogged(g, ReadLog(RenderLog(es)), es)
<1>1. PICK N \in Nat : N = Len(es) /\ \A n \in 1 .. N : es[n] \in LogEntry /\ es[n].op # "NL"
  OBVIOUS
<1>2. PICK lines \in Seq(Text), s \in Seq(Seq(Text)) : lines = RenderLog(es) /\ s = Blocks(es)
  BY RenderLogIs
<1>3. Len(s) = N /\ \A n \in 1 .. N : s[n] = RenderEntry(es[n])
  BY ONLY <1>1, <1>2, RenderLogIs, es \in Seq(LogEntry)
<1>4. PICK o : Offsets(o, s, lines)
  BY ONLY <1>2, RenderLogIs, es \in Seq(LogEntry)
<1>5. PICK M \in Nat : M = Len(lines)
  OBVIOUS
<1>6. /\ \A n \in 1 .. N : o[n] \in Nat /\ o[n + 1] \in Nat /\ o[n + 1] = o[n] + Len(s[n])
      /\ M = o[N + 1]
      /\ \A n \in 1 .. N, m \in Nat \ {0} : m <= Len(s[n]) => lines[o[n] + m] = s[n][m]
      /\ \A n, k \in 1 .. N + 1 : n <= k => o[n] <= o[k]
  <2>1. \A n \in 1 .. N + 1 : o[n] \in Nat
    BY ONLY <1>3, <1>4 DEF Offsets
  <2>2. \A n \in 1 .. N : n \in 1 .. N + 1 /\ n + 1 \in 1 .. N + 1
    OBVIOUS
  <2>3. \A n \in 1 .. N : o[n + 1] = o[n] + Len(s[n])
    BY ONLY <1>3, <1>4 DEF Offsets
  <2>4. M = o[N + 1]
    BY ONLY <1>3, <1>4, <1>5 DEF Offsets
  <2>5. \A n \in 1 .. N, m \in Nat \ {0} : m <= Len(s[n]) => lines[o[n] + m] = s[n][m]
    BY ONLY <1>3, <1>4 DEF Offsets
  <2>6. \A n, k \in 1 .. N + 1 : n <= k => o[n] <= o[k]
    BY ONLY <1>3, <1>4 DEF Offsets
  <2> QED BY ONLY <2>1, <2>2, <2>3, <2>4, <2>5, <2>6
<1>7. \A n \in 1 .. N : Len(s[n]) \in Nat /\ Len(s[n]) >= 3
  <2> TAKE n \in 1 .. N
  <2>1. es[n] \in LogEntry
    BY ONLY <1>1, n \in 1 .. N
  <2>2. s[n] = RenderEntry(es[n])
    BY ONLY <1>3, n \in 1 .. N
  <2>3. PICK H, B \in Nat : LogLaid(RenderEntry(es[n]), es[n], H, B)
    BY ONLY <2>1, RenderEntryIs
  <2>4. H >= 1 /\ Len(s[n]) = H + B + 2
    BY ONLY <2>2, <2>3 DEF LogLaid
  <2>5. PICK l \in Nat : l = H + B + 2
    OBVIOUS
  <2>6. l >= 3
    BY ONLY <2>4, <2>5, H \in Nat, B \in Nat
  <2> QED BY ONLY <2>4, <2>5, <2>6
<1>8. ASSUME NEW n \in 1 .. N, NEW i \in 1 .. Len(s[n])
      PROVE  o[n] + i \in 1 .. M /\ lines[o[n] + i] = s[n][i]
  <2>1. n + 1 \in 1 .. N + 1 /\ N + 1 \in 1 .. N + 1 /\ n + 1 <= N + 1
    OBVIOUS
  <2>2. o[n + 1] <= M
    BY ONLY <1>6, <2>1
  <2>3. PICK x \in Nat, k \in Nat : x = o[n] /\ k = Len(s[n]) /\ x + k <= M
    <3>1. PICK x \in Nat, k \in Nat : x = o[n] /\ k = Len(s[n])
      BY ONLY <1>6, <1>7, n \in 1 .. N
    <3>2. o[n + 1] = o[n] + Len(s[n])
      BY ONLY <1>6, n \in 1 .. N
    <3>3. o[n + 1] = x + k
      BY ONLY <3>1, <3>2
    <3> QED BY ONLY <2>2, <3>1, <3>3
  <2>4. i \in Nat \ {0} /\ i <= k
    BY ONLY <2>3, k \in Nat, i \in 1 .. Len(s[n])
  <2>5. x + i \in 1 .. M
    <3>1. x + k <= M
      BY ONLY <2>3
    <3> QED BY ONLY <2>4, <3>1, x \in Nat, k \in Nat, M \in Nat
  <2>6. lines[o[n] + i] = s[n][i]
    BY ONLY <1>6, <2>3, <2>4, n \in 1 .. N
  <2> QED BY ONLY <2>3, <2>5, <2>6
<1> DEFINE W == Whole(es)
<1>9. \A n \in W : n \in 1 .. N /\ ~Begins(es[n].title, "NL")
  BY <1>1 DEF Whole
<1> HIDE DEF W
<1>10. ASSUME NEW n \in W
       PROVE  n \in 1 .. N /\ o[n] + 1 \in 1 .. M /\ IsHeading(lines[o[n] + 1])
  <2>1. n \in 1 .. N /\ 1 \in 1 .. Len(s[n])
    BY <1>7, <1>9
  <2>2. IsHeading(RenderEntry(es[n])[1])
    BY ONLY <1>1, <1>9, <2>1, HeadLine, n \in W
  <2>3. o[n] + 1 \in 1 .. M /\ lines[o[n] + 1] = s[n][1]
    BY ONLY <1>8, <2>1
  <2>4. s[n] = RenderEntry(es[n])
    BY ONLY <1>3, <2>1
  <2> QED BY ONLY <2>1, <2>2, <2>3, <2>4
<1>11. PICK r \in Seq(LogEntry) : r = ReadLog(RenderLog(es))
  BY ONLY <1>2, ReadLogIs
<1>12. PICK h : HeadsOf(h, lines, r)
  BY ONLY <1>2, <1>11, ReadLogIs
<1>13. PICK K \in Nat : K = Len(h) /\ K = Len(r)
  <2>1. Len(r) = Len(h)
    BY ONLY <1>12 DEF HeadsOf
  <2>2. Len(r) \in Nat
    BY ONLY r \in Seq(LogEntry)
  <2> QED BY ONLY <2>1, <2>2
<1>14. /\ \A i \in 1 .. K : h[i] \in 1 .. M /\ IsHeading(lines[h[i]])
       /\ \A i, j \in 1 .. K : i < j => h[i] < h[j]
       /\ \A k \in 1 .. M : IsHeading(lines[k]) => \E i \in 1 .. K : h[i] = k
  <2>1. h \in Seq(1 .. M)
    BY ONLY <1>5, <1>12 DEF HeadsOf
  <2>2. \A i \in 1 .. K : h[i] \in 1 .. M
    <3>1. K = Len(h)
      BY ONLY <1>13
    <3> QED BY ONLY <2>1, <3>1
  <2>3. \A i \in 1 .. K : IsHeading(lines[h[i]])
    BY ONLY <1>12, <1>13 DEF HeadsOf
  <2>4. \A i, j \in 1 .. K : i < j => h[i] < h[j]
    BY ONLY <1>12, <1>13 DEF HeadsOf
  <2>5. \A k \in 1 .. M : IsHeading(lines[k]) => \E i \in 1 .. K : h[i] = k
    BY ONLY <1>5, <1>12, <1>13 DEF HeadsOf
  <2> QED BY ONLY <2>2, <2>3, <2>4, <2>5
<1> DEFINE g == [n \in W |-> CHOOSE i \in 1 .. K : h[i] = o[n] + 1]
<1>15. \A n \in W : g[n] \in 1 .. K /\ h[g[n]] = o[n] + 1
  <2> TAKE n \in W
  <2>1. \E i \in 1 .. K : h[i] = o[n] + 1
    BY ONLY <1>10, <1>14, n \in W
  <2> QED BY <2>1
<1> HIDE DEF g
<1>16. ASSUME NEW m \in W, NEW n \in W, m < n PROVE g[m] < g[n]
  <2>1. m \in 1 .. N /\ n \in 1 .. N
    BY ONLY <1>9, m \in W, n \in W
  <2>2. m + 1 \in 1 .. N + 1 /\ n \in 1 .. N + 1 /\ m + 1 <= n
    BY ONLY <1>16, <2>1, N \in Nat
  <2>3. o[m + 1] <= o[n]
    BY ONLY <1>6, <2>2
  <2>4. PICK x \in Nat, y \in Nat, k \in Nat : x = o[m] /\ y = o[n] /\ k = Len(s[m]) /\ k >= 3 /\ x + k <= y
    <3>1. o[m] \in Nat /\ o[m + 1] = o[m] + Len(s[m])
      BY ONLY <1>6, <2>1
    <3>2. o[n] \in Nat
      BY ONLY <1>6, <2>1
    <3>3. Len(s[m]) \in Nat /\ Len(s[m]) >= 3
      BY ONLY <1>7, <2>1
    <3>4. o[m] + Len(s[m]) <= o[n]
      BY ONLY <2>3, <3>1
    <3> QED BY ONLY <3>1, <3>2, <3>3, <3>4
  <2>5. h[g[m]] = x + 1 /\ h[g[n]] = y + 1 /\ x + 1 < y + 1
    <3>1. h[g[m]] = x + 1 /\ h[g[n]] = y + 1
      BY ONLY <1>15, <2>4, m \in W, n \in W
    <3>2. x + 1 < y + 1
      <4>1. k >= 3 /\ x + k <= y
        BY ONLY <2>4
      <4> QED BY ONLY <4>1, x \in Nat, y \in Nat, k \in Nat
    <3> QED BY ONLY <3>1, <3>2
  <2>6. PICK i \in 1 .. K, j \in 1 .. K : i = g[m] /\ j = g[n]
    BY ONLY <1>15, m \in W, n \in W
  <2>7. ~(j < i) /\ i # j
    <3>1. j < i => h[j] < h[i]
      BY ONLY <1>14, i \in 1 .. K, j \in 1 .. K
    <3>2. h[i] = x + 1 /\ h[j] = y + 1
      BY ONLY <2>5, <2>6
    <3>3. ~(h[j] < h[i]) /\ h[i] # h[j]
      BY ONLY <2>5, <3>2, x \in Nat, y \in Nat
    <3> QED BY ONLY <3>1, <3>3
  <2> QED BY ONLY <2>6, <2>7, i \in 1 .. K, j \in 1 .. K, K \in Nat
<1>17. ASSUME NEW n \in W, CleanNote(es[n]), n < N => n + 1 \in W
       PROVE  r[g[n]] = es[n]
  <2>1. n \in 1 .. N /\ es[n] \in LogEntry /\ es[n].op # "NL" /\ s[n] = RenderEntry(es[n])
    BY ONLY <1>1, <1>3, <1>9, n \in W
  <2>2. PICK B \in Nat : BlockOf(s[n], es[n], B)
    BY ONLY <1>17, <2>1, EntryBlock
  <2>3. Len(s[n]) = B + 3 /\ s[n][1] = HeadingText(es[n]) /\ \A i \in 2 .. B + 3 : ~IsHeading(s[n][i])
    BY ONLY <2>2 DEF BlockOf
  <2>4. PICK a \in Nat : a = o[n] /\ o[n + 1] = a + B + 3
    <3>1. o[n] \in Nat /\ o[n + 1] = o[n] + Len(s[n])
      BY ONLY <1>6, <2>1
    <3>2. o[n + 1] = o[n] + (B + 3)
      BY ONLY <2>3, <3>1
    <3>3. PICK a \in Nat : a = o[n]
      BY ONLY <3>1
    <3>4. a + (B + 3) = a + B + 3
      BY ONLY a \in Nat, B \in Nat
    <3> QED BY ONLY <3>2, <3>3, <3>4
  <2>5. \A i \in 1 .. B + 3 : a + i \in 1 .. M /\ lines[a + i] = s[n][i]
    BY ONLY <1>8, <2>1, <2>3, <2>4
  <2>6. \A k \in 1 .. M : a + 1 < k /\ k <= a + B + 3 => ~IsHeading(lines[k])
    <3> SUFFICES ASSUME NEW k \in 1 .. M, a + 1 < k, k <= a + B + 3 PROVE ~IsHeading(lines[k])
      OBVIOUS
    <3>1. PICK i \in 2 .. B + 3 : k = a + i
      <4>1. k - a \in 2 .. B + 3 /\ k = a + (k - a)
        BY ONLY a \in Nat, B \in Nat, M \in Nat, k \in 1 .. M, a + 1 < k, k <= a + B + 3
      <4> QED BY ONLY <4>1
    <3>2. i \in 1 .. B + 3
      OBVIOUS
    <3> QED BY ONLY <2>3, <2>5, <3>1, <3>2
  <2>7. PICK i \in 1 .. K : i = g[n] /\ h[i] = a + 1
    BY ONLY <1>15, <2>4, n \in W
  <2>8. (IF i = K THEN M ELSE h[i + 1] - 1) = a + B + 3
    <3>1. ASSUME i # K
          PROVE  /\ h[i + 1] \in 1 .. M /\ IsHeading(lines[h[i + 1]]) /\ a + 1 < h[i + 1]
                 /\ i + 1 \in 1 .. K /\ ~(h[i + 1] <= a + B + 3)
      <4>1. i + 1 \in 1 .. K /\ i < i + 1
        BY ONLY <3>1, i \in 1 .. K, K \in Nat
      <4>2. h[i] < h[i + 1] /\ h[i + 1] \in 1 .. M /\ IsHeading(lines[h[i + 1]])
        BY ONLY <1>14, <4>1, i \in 1 .. K
      <4>3. a + 1 < h[i + 1]
        BY ONLY <2>7, <4>2
      <4>4. ~(h[i + 1] <= a + B + 3)
        BY ONLY <2>6, <4>2, <4>3
      <4> QED BY ONLY <4>1, <4>2, <4>3, <4>4
    <3>2. CASE n = N
      <4>1. M = a + B + 3
        BY ONLY <1>6, <2>4, <3>2
      <4>2. i = K
        <5>1. ASSUME i # K PROVE FALSE
          <6>1. h[i + 1] \in 1 .. M /\ ~(h[i + 1] <= M)
            BY ONLY <3>1, <4>1, <5>1
          <6> QED BY ONLY <6>1, M \in Nat
        <5> QED BY ONLY <5>1
      <4> QED BY ONLY <4>1, <4>2
    <3>3. CASE n # N
      <4>1. n + 1 \in W /\ n < n + 1
        <5>1. n < N /\ n < n + 1
          BY ONLY <2>1, <3>3, N \in Nat
        <5> QED BY ONLY <1>17, <5>1
      <4>2. PICK j \in 1 .. K : j = g[n + 1] /\ h[j] = a + B + 3 + 1 /\ i < j
        <5>1. g[n + 1] \in 1 .. K /\ h[g[n + 1]] = o[n + 1] + 1
          BY ONLY <1>15, <4>1
        <5>2. g[n] < g[n + 1]
          BY ONLY <1>16, <4>1, n \in W
        <5> QED BY ONLY <2>4, <2>7, <5>1, <5>2
      <4>3. i # K
        BY ONLY <4>2, K \in Nat, i \in 1 .. K, j \in 1 .. K
      <4>4. PICK z \in Nat : z = h[i + 1] /\ ~(z <= a + B + 3)
        <5>1. h[i + 1] \in 1 .. M /\ ~(h[i + 1] <= a + B + 3)
          BY ONLY <3>1, <4>3
        <5>2. h[i + 1] \in Nat
          BY ONLY <5>1, M \in Nat
        <5> QED BY ONLY <5>1, <5>2
      <4>5. z <= a + B + 3 + 1
        <5>1. i + 1 = j \/ i + 1 < j
          BY ONLY <4>2, K \in Nat, i \in 1 .. K, j \in 1 .. K
        <5>2. i + 1 < j => h[i + 1] < h[j]
          BY ONLY <1>14, <3>1, <4>3, j \in 1 .. K
        <5>3. z = a + B + 3 + 1 \/ z < a + B + 3 + 1
          BY ONLY <4>2, <4>4, <5>1, <5>2
        <5> QED BY ONLY <5>3, z \in Nat, a \in Nat, B \in Nat
      <4>6. z - 1 = a + B + 3
        <5>1. ~(z <= a + B + 3)
          BY ONLY <4>4
        <5> QED BY ONLY <4>5, <5>1, z \in Nat, a \in Nat, B \in Nat
      <4> QED BY ONLY <4>3, <4>4, <4>6
    <3> QED BY ONLY <3>2, <3>3
  <2>9. /\ r[i].op = lines[a + 1][2]
        /\ r[i].title = SubSeq(lines[a + 1], 4, Len(lines[a + 1]))
        /\ r[i].note = NoteOf(SubSeq(lines, a + 1 + 1, a + B + 3))
    <3>1. /\ r[i].op = lines[h[i]][2]
          /\ r[i].title = SubSeq(lines[h[i]], 4, Len(lines[h[i]]))
      BY ONLY <1>12, <1>13, i \in 1 .. K DEF HeadsOf
    <3>2. r[i].note = NoteOf(SubSeq(lines, h[i] + 1, IF i = K THEN M ELSE h[i + 1] - 1))
      BY ONLY <1>5, <1>12, <1>13, i \in 1 .. K DEF HeadsOf
    <3>3. r[i].note = NoteOf(SubSeq(lines, a + 1 + 1, a + B + 3))
      BY ONLY <2>7, <2>8, <3>2
    <3> QED BY ONLY <2>7, <3>1, <3>3
  <2>10. lines[a + 1] = HeadingText(es[n])
    <3>1. 1 \in 1 .. B + 3
      OBVIOUS
    <3> QED BY ONLY <2>3, <2>5, <3>1
  <2>11. r[i].op = es[n].op /\ r[i].title = es[n].title
    <3>1. Free(es[n].title, {"NL"})
      BY ONLY <1>17 DEF CleanNote
    <3>2. HeadingText(es[n])[2] = es[n].op
          /\ SubSeq(HeadingText(es[n]), 4, Len(HeadingText(es[n]))) = es[n].title
      BY ONLY <2>1, <3>1, HeadingBack
    <3> QED BY ONLY <2>9, <2>10, <3>2
  <2>12. r[i].note = es[n].note
    <3>1. a + B + 3 <= Len(lines)
      <4>1. B + 3 \in 1 .. B + 3 /\ a + (B + 3) = a + B + 3
        OBVIOUS
      <4>2. a + (B + 3) \in 1 .. M
        BY ONLY <2>5, <4>1
      <4>3. a + (B + 3) <= M
        BY ONLY <4>2, M \in Nat
      <4> QED BY ONLY <1>5, <4>1, <4>3
    <3>2. \A k \in 1 .. B + 3 : lines[a + k] = s[n][k]
      BY ONLY <2>5
    <3>3. NoteOf(SubSeq(lines, a + 1 + 1, a + B + 3)) = es[n].note
      <4>1. PICK e \in LogEntry : e = es[n]
        BY ONLY <2>1
      <4>2. CleanNote(e)
        BY ONLY <1>17, <4>1
      <4> DEFINE S == s[n]
      <4>3. BlockOf(S, e, B)
        BY ONLY <2>2, <4>1
      <4>4. \A k \in 1 .. B + 3 : lines[a + k] = S[k]
        BY ONLY <3>2
      <4> HIDE DEF S
      <4>5. NoteOf(SubSeq(lines, a + 1 + 1, a + B + 3)) = e.note
        BY ONLY <3>1, <4>2, <4>3, <4>4, BodyBack, e \in LogEntry, B \in Nat, a \in Nat, lines \in Seq(Text)
      <4> QED BY ONLY <4>1, <4>5
    <3> QED BY ONLY <2>9, <3>3
  <2>13. r[i] \in LogEntry
    BY ONLY <1>13, r \in Seq(LogEntry), i \in 1 .. K
  <2>14. r[i] = es[n]
    <3>1. PICK p \in LogEntry, q \in LogEntry : p = r[i] /\ q = es[n]
      BY ONLY <2>1, <2>13
    <3>2. p.op = q.op /\ p.title = q.title /\ p.note = q.note
      BY ONLY <2>11, <2>12, <3>1
    <3>3. p = q
      BY ONLY <3>2, p \in LogEntry, q \in LogEntry DEF LogEntry
    <3> QED BY ONLY <3>1, <3>3
  <2> QED BY ONLY <2>7, <2>14
<1>18. Relogged(g, r, es)
  <2>1. \A n \in W : g[n] \in 1 .. Len(r)
    BY ONLY <1>13, <1>15
  <2>2. \A n \in W : CleanNote(es[n]) /\ (n < Len(es) => n + 1 \in W) => r[g[n]] = es[n]
    BY ONLY <1>1, <1>17
  <2>3. \A m, n \in W : m < n => g[m] < g[n]
    BY ONLY <1>16
  <2> QED BY ONLY <2>1, <2>2, <2>3 DEF Relogged, W
<1> QED BY ONLY <1>11, <1>18

\* A text without a line break does not begin with one.
LEMMA FreeBegins ==
    ASSUME NEW t \in Text, Free(t, {"NL"})
    PROVE  ~Begins(t, "NL")
<1>1. \A k \in 1 .. Len(t) : t[k] # "NL"
  BY FreeIs
<1>2. t # <<>> => 1 \in 1 .. Len(t)
  <2>1. t \in Seq(Words)
    BY DEF Text
  <2>2. Len(t) \in Nat /\ (Len(t) = 0 => t = <<>>)
    BY ONLY <2>1
  <2> QED BY ONLY <2>2
<1> QED BY ONLY <1>1, <1>2 DEF Begins

\* What was logged is still told after one more entry.
LEMMA RelogStep ==
    ASSUME NEW es \in Seq(LogEntry), NEW r \in Seq(LogEntry), NEW f, Relogged(f, r, es),
           \A n \in 1 .. Len(r) : Free(r[n].title, {"NL"}),
           NEW e \in LogEntry, NEW q, NEW g, Relogged(g, q, Append(r, e))
    PROVE  \E h : Relogged(h, q, Append(es, e))
<1>1. PICK N \in Nat, R \in Nat : N = Len(es) /\ R = Len(r)
  OBVIOUS
<1>2. PICK a \in Seq(LogEntry) : a = Append(es, e)
  <2>1. Append(es, e) \in Seq(LogEntry)
    BY ONLY es \in Seq(LogEntry), e \in LogEntry
  <2> QED BY ONLY <2>1
<1>3. Len(a) = N + 1 /\ a[N + 1] = e /\ \A n \in 1 .. N : a[n] = es[n]
  BY ONLY <1>1, <1>2, es \in Seq(LogEntry), e \in LogEntry
<1>4. PICK b \in Seq(LogEntry) : b = Append(r, e)
  <2>1. Append(r, e) \in Seq(LogEntry)
    BY ONLY r \in Seq(LogEntry), e \in LogEntry
  <2> QED BY ONLY <2>1
<1>5. Len(b) = R + 1 /\ b[R + 1] = e /\ \A n \in 1 .. R : b[n] = r[n]
  BY ONLY <1>1, <1>4, r \in Seq(LogEntry), e \in LogEntry
<1>6. \A n \in 1 .. R : n \in Whole(b)
  <2> TAKE n \in 1 .. R
  <2>1. r[n].title \in Text /\ Free(r[n].title, {"NL"})
    <3>1. r[n] \in LogEntry
      BY ONLY <1>1, r \in Seq(LogEntry), n \in 1 .. R
    <3>2. r[n].title \in Text
      BY ONLY <3>1 DEF LogEntry
    <3>3. \A k \in 1 .. Len(r) : Free(r[k].title, {"NL"})
      OBVIOUS
    <3> QED BY ONLY <1>1, <3>2, <3>3, n \in 1 .. R
  <2>2. ~Begins(b[n].title, "NL")
    BY ONLY <1>5, <2>1, FreeBegins, n \in 1 .. R
  <2>3. n \in 1 .. Len(b)
    <3>1. n \in 1 .. R + 1
      OBVIOUS
    <3> QED BY ONLY <1>5, <3>1
  <2> QED BY ONLY <2>2, <2>3 DEF Whole
<1>7. ~Begins(e.title, "NL") => R + 1 \in Whole(b)
  <2>1. R + 1 \in 1 .. R + 1
    OBVIOUS
  <2> QED BY ONLY <1>5, <2>1 DEF Whole
<1>8. \A n \in Whole(a) : /\ n \in 1 .. N \/ n = N + 1
                          /\ n \in 1 .. N => n \in Whole(es)
                          /\ n = N + 1 => ~Begins(e.title, "NL")
  <2> TAKE n \in Whole(a)
  <2>1. n \in 1 .. N + 1 /\ ~Begins(a[n].title, "NL")
    BY ONLY <1>3, n \in Whole(a) DEF Whole
  <2>2. n \in 1 .. N \/ n = N + 1
    BY ONLY <2>1, N \in Nat
  <2>3. n \in 1 .. N => n \in Whole(es)
    BY ONLY <1>1, <1>3, <2>1 DEF Whole
  <2>4. n = N + 1 => ~Begins(e.title, "NL")
    BY ONLY <1>3, <2>1
  <2> QED BY ONLY <2>2, <2>3, <2>4
<1>9. /\ \A n \in Whole(es) : n \in 1 .. N /\ f[n] \in 1 .. R
      /\ \A m, n \in Whole(es) : m < n => f[m] < f[n]
      /\ \A n \in Whole(es) :
            CleanNote(es[n]) /\ (n < N => n + 1 \in Whole(es)) => r[f[n]] = es[n]
  <2>1. \A n \in Whole(es) : n \in 1 .. N
    BY ONLY <1>1 DEF Whole
  <2> QED BY ONLY <1>1, <2>1, Relogged(f, r, es) DEF Relogged
<1>10. /\ \A n \in Whole(b) : g[n] \in 1 .. Len(q)
       /\ \A m, n \in Whole(b) : m < n => g[m] < g[n]
       /\ \A n \in Whole(b) :
             CleanNote(b[n]) /\ (n < R + 1 => n + 1 \in Whole(b)) => q[g[n]] = b[n]
  BY ONLY <1>4, <1>5, Relogged(g, q, Append(r, e)) DEF Relogged
<1> DEFINE h == [n \in 1 .. N + 1 |-> IF n = N + 1 THEN g[R + 1] ELSE g[f[n]]]
           to(n) == IF n = N + 1 THEN R + 1 ELSE f[n]
<1>11. ASSUME NEW n \in Whole(a) PROVE h[n] = g[to(n)] /\ to(n) \in Whole(b)
  <2>1. CASE n = N + 1
    <3>1. N + 1 \in 1 .. N + 1
      OBVIOUS
    <3>2. to(n) = R + 1 /\ h[n] = g[R + 1]
      BY <2>1, <3>1
    <3> QED BY ONLY <1>7, <1>8, <2>1, <3>2, n \in Whole(a)
  <2>2. CASE n # N + 1
    <3>1. n \in 1 .. N /\ n \in Whole(es)
      BY ONLY <1>8, <2>2, n \in Whole(a)
    <3>2. f[n] \in 1 .. R
      BY ONLY <1>9, <3>1
    <3>3. n \in 1 .. N + 1
      BY <3>1
    <3>4. to(n) = f[n] /\ h[n] = g[f[n]]
      BY <2>2, <3>3
    <3> QED BY ONLY <1>6, <3>2, <3>4
  <2> QED BY ONLY <2>1, <2>2
<1>12. ASSUME NEW m \in Whole(a), NEW n \in Whole(a), m < n PROVE to(m) < to(n)
  <2>1. m \in 1 .. N /\ m \in Whole(es) /\ m # N + 1
    <3>1. (m \in 1 .. N \/ m = N + 1) /\ (n \in 1 .. N \/ n = N + 1)
      BY ONLY <1>8, m \in Whole(a), n \in Whole(a)
    <3>2. m \in 1 .. N /\ m # N + 1
      BY ONLY <1>12, <3>1, N \in Nat
    <3> QED BY ONLY <1>8, <3>2, m \in Whole(a)
  <2>2. to(m) = f[m] /\ f[m] \in 1 .. R
    BY <1>9, <2>1
  <2>3. CASE n = N + 1
    <3>1. to(n) = R + 1
      BY <2>3
    <3>2. f[m] < R + 1
      BY ONLY <2>2, R \in Nat
    <3> QED BY ONLY <2>2, <3>1, <3>2
  <2>4. CASE n # N + 1
    <3>1. n \in Whole(es)
      BY ONLY <1>8, <2>4, n \in Whole(a)
    <3>2. to(n) = f[n]
      BY <2>4
    <3>3. f[m] < f[n]
      BY ONLY <1>9, <1>12, <2>1, <3>1
    <3> QED BY ONLY <2>2, <3>2, <3>3
  <2> QED BY ONLY <2>3, <2>4
<1> HIDE DEF h
<1>13. ASSUME NEW n \in Whole(a), CleanNote(a[n]), n < N + 1 => n + 1 \in Whole(a)
       PROVE  q[h[n]] = a[n]
  <2>1. CASE n = N + 1
    <3>1. to(n) = R + 1 /\ R + 1 \in Whole(b)
      BY <1>11, <2>1
    <3>2. a[n] = e /\ b[R + 1] = e
      BY ONLY <1>3, <1>5, <2>1
    <3>3. ~(R + 1 < R + 1)
      OBVIOUS
    <3>4. q[g[R + 1]] = b[R + 1]
      BY ONLY <1>10, <1>13, <3>1, <3>2, <3>3
    <3>5. h[n] = g[R + 1]
      BY <1>11, <3>1
    <3> QED BY ONLY <3>2, <3>4, <3>5
  <2>2. CASE n # N + 1
    <3>1. n \in 1 .. N /\ n \in Whole(es) /\ a[n] = es[n]
      BY ONLY <1>3, <1>8, <2>2, n \in Whole(a)
    <3>2. n + 1 \in Whole(a)
      BY ONLY <1>13, <3>1, N \in Nat
    <3>3. n < N => n + 1 \in Whole(es)
      <4>1. n < N => n + 1 \in 1 .. N
        BY ONLY <3>1, N \in Nat
      <4> QED BY ONLY <1>8, <3>2, <4>1
    <3>4. r[f[n]] = es[n]
      BY ONLY <1>9, <1>13, <3>1, <3>3
    <3>5. PICK k \in 1 .. R : k = f[n] /\ to(n) = k
      BY <1>9, <2>2, <3>1
    <3>6. b[k] = es[n]
      BY ONLY <1>5, <3>4, <3>5
    <3>7. k < R + 1 => k + 1 \in Whole(b)
      <4>1. CASE n = N
        <5>1. ~Begins(e.title, "NL")
          BY ONLY <1>8, <3>2, <4>1
        <5>2. k + 1 \in 1 .. R \/ k + 1 = R + 1
          BY ONLY k \in 1 .. R, R \in Nat
        <5> QED BY ONLY <1>6, <1>7, <5>1, <5>2
      <4>2. CASE n # N
        <5>1. n < N /\ n < n + 1
          BY ONLY <3>1, <4>2, N \in Nat
        <5>2. n + 1 \in Whole(es)
          BY ONLY <3>3, <5>1
        <5>3. f[n] < f[n + 1] /\ f[n + 1] \in 1 .. R
          BY ONLY <1>9, <3>1, <5>1, <5>2
        <5>4. k + 1 \in 1 .. R
          BY ONLY <3>5, <5>3, k \in 1 .. R, R \in Nat
        <5> QED BY ONLY <1>6, <5>4
      <4> QED BY ONLY <4>1, <4>2
    <3>8. k \in Whole(b)
      BY ONLY <1>6, k \in 1 .. R
    <3>9. q[g[k]] = b[k]
      BY ONLY <1>10, <1>13, <3>1, <3>6, <3>7, <3>8
    <3>10. h[n] = g[k]
      BY <1>11, <3>5
    <3> QED BY ONLY <3>1, <3>6, <3>9, <3>10
  <2> QED BY ONLY <2>1, <2>2
<1> HIDE DEF to
<1>14. Relogged(h, q, a)
  <2>1. \A n \in Whole(a) : h[n] \in 1 .. Len(q)
    BY ONLY <1>10, <1>11
  <2>2. \A m, n \in Whole(a) : m < n => h[m] < h[n]
    <3> TAKE m, n \in Whole(a)
    <3>1. h[m] = g[to(m)] /\ to(m) \in Whole(b) /\ h[n] = g[to(n)] /\ to(n) \in Whole(b)
      BY ONLY <1>11, m \in Whole(a), n \in Whole(a)
    <3>2. m < n => to(m) < to(n)
      BY ONLY <1>12, m \in Whole(a), n \in Whole(a)
    <3> QED BY ONLY <1>10, <3>1, <3>2
  <2>3. \A n \in Whole(a) : CleanNote(a[n]) /\ (n < Len(a) => n + 1 \in Whole(a)) => q[h[n]] = a[n]
    BY ONLY <1>3, <1>13
  <2> QED BY ONLY <2>1, <2>2, <2>3 DEF Relogged
<1> QED BY ONLY <1>2, <1>14

-----------------------------------------------------------------------------
(* The log.                                                                *)

\* No line of the log holds a line break, and what was said is told.
LogInv ==
    /\ log \in Seq(Text) /\ \A k \in 1 .. Len(log) : Unbroken(log[k])
    /\ said \in Seq(LogEntry)
    /\ \E f : Relogged(f, ReadLog(log), said)

\* An empty log tells of nothing.
LEMMA LogInvInit == FilesInit => LogInv
<1> SUFFICES ASSUME FilesInit PROVE LogInv
  OBVIOUS
<1>1. log = <<>> /\ said = <<>>
  BY DEF FilesInit
<1>2. <<>> \in Seq(Text) /\ <<>> \in Seq(LogEntry) /\ Len(<<>>) = 0
  OBVIOUS
<1>3. Whole(said) = {}
  BY <1>1, <1>2 DEF Whole
<1>4. Relogged(<<>>, ReadLog(log), said)
  BY ONLY <1>3 DEF Relogged
<1>5. \A k \in 1 .. Len(log) : Unbroken(log[k])
  BY ONLY <1>1, <1>2
<1> QED BY ONLY <1>1, <1>2, <1>4, <1>5 DEF LogInv

\* The commands that leave the log alone.
LEMMA LogUntouched ==
    ASSUME LogInv, UNCHANGED <<log, said>>
    PROVE  LogInv'
BY DEF LogInv

\* AppendLog reads the log, adds an entry and writes it again.
LEMMA AppendLogKeeps ==
    ASSUME LogInv, NEW op \in Words, op # "NL", NEW note \in Text, NEW title \in Text,
           AppendLog(op, note, title)
    PROVE  LogInv'
<1>1. PICK e : e = [op |-> op, title |-> title, note |-> note]
  OBVIOUS
<1>2. e \in LogEntry /\ e.op = op
  BY <1>1 DEF LogEntry
<1>3. log' = RenderLog(Append(ReadLog(log), e)) /\ said' = Append(said, e)
  BY <1>1 DEF AppendLog, AppendedToLog
<1>4. /\ log \in Seq(Text) /\ \A k \in 1 .. Len(log) : Unbroken(log[k])
      /\ said \in Seq(LogEntry)
  BY DEF LogInv
<1>5. PICK f : Relogged(f, ReadLog(log), said)
  BY DEF LogInv
<1>6. PICK r \in Seq(LogEntry) :
         r = ReadLog(log) /\ \A n \in 1 .. Len(r) : r[n].op # "NL" /\ Free(r[n].title, {"NL"})
  BY ONLY <1>4, ReadLogIs
<1>7. PICK es \in Seq(LogEntry) : es = Append(r, e)
  <2>1. Append(r, e) \in Seq(LogEntry)
    BY ONLY <1>2, r \in Seq(LogEntry)
  <2> QED BY ONLY <2>1
<1>8. \A n \in 1 .. Len(es) : es[n].op # "NL"
  <2>1. PICK R \in Nat : R = Len(r)
    OBVIOUS
  <2>2. Len(es) = R + 1 /\ es[R + 1] = e /\ \A n \in 1 .. R : es[n] = r[n]
    BY ONLY <1>2, <1>7, <2>1, r \in Seq(LogEntry)
  <2> TAKE n \in 1 .. Len(es)
  <2>3. n \in 1 .. R \/ n = R + 1
    BY ONLY <2>2, R \in Nat, n \in 1 .. Len(es)
  <2>4. CASE n \in 1 .. R
    BY ONLY <1>6, <2>1, <2>2, <2>4
  <2>5. CASE n = R + 1
    BY ONLY <1>2, <2>2, <2>5, op # "NL"
  <2> QED BY ONLY <2>3, <2>4, <2>5
<1>9. PICK lines \in Seq(Text) :
         lines = RenderLog(es) /\ \A k \in 1 .. Len(lines) : Unbroken(lines[k])
  BY ONLY RenderLogIs, es \in Seq(LogEntry)
<1>10. PICK g : Relogged(g, ReadLog(lines), Append(r, e))
  BY ONLY <1>7, <1>8, <1>9, LogBack, es \in Seq(LogEntry)
<1>11. \E h : Relogged(h, ReadLog(lines), Append(said, e))
  <2>1. \A n \in 1 .. Len(r) : Free(r[n].title, {"NL"})
    BY ONLY <1>6
  <2>2. Relogged(f, r, said)
    BY ONLY <1>5, <1>6
  <2> QED BY ONLY <1>2, <1>4, <1>10, <2>1, <2>2, RelogStep, r \in Seq(LogEntry)
<1>12. log' = lines
  BY ONLY <1>3, <1>6, <1>7, <1>9
<1>13. said' \in Seq(LogEntry)
  BY ONLY <1>2, <1>3, <1>4
<1>14. \E h : Relogged(h, ReadLog(log'), said')
  BY ONLY <1>3, <1>11, <1>12
<1>15. log' \in Seq(Text) /\ \A k \in 1 .. Len(log') : Unbroken(log'[k])
  BY ONLY <1>9, <1>12
<1> QED BY ONLY <1>13, <1>14, <1>15 DEF LogInv

\* No step breaks LogInv.
LEMMA LogInvNext ==
    IndexInv /\ LogInv /\ [FilesNext]_filesVars => LogInv'
<1> SUFFICES ASSUME IndexInv, LogInv, [FilesNext]_filesVars PROVE LogInv'
  OBVIOUS
<1>w. {"delete", "ingest", "Removed"} \subseteq Words /\ "delete" # "NL" /\ "ingest" # "NL"
  BY ManagedFilesAssumption
<1>1. ASSUME NEW p \in Pages, WritePage(p) \/ IndexAdd(p) \/ IndexRemove(p) PROVE LogInv'
  <2>1. UNCHANGED <<log, said>>
    BY <1>1 DEF WritePage, IndexAdd, IndexRemove
  <2> QED BY <2>1, LogUntouched
<1>2. ASSUME NEW p \in Pages, DeletePage(p) PROVE LogInv'
  <2>1. page[p] # None /\ AppendLog("delete", <<"Removed">>, page[p].title)
    BY <1>2 DEF DeletePage
  <2>2. page[p] \in Form
    BY <2>1, ManagedFilesAssumption DEF IndexInv
  <2>3. PICK title \in Text : title = page[p].title
    BY <2>2 DEF Form
  <2>4. PICK note \in Text : note = <<"Removed">>
    <3>1. PICK w \in Words : w = "Removed"
      BY <1>w
    <3>2. <<w>> \in Seq(Words)
      OBVIOUS
    <3> QED BY <3>1, <3>2 DEF Text
  <2>5. PICK op \in Words : op = "delete" /\ op # "NL"
    BY <1>w
  <2>6. AppendLog(op, note, title)
    BY ONLY <2>1, <2>3, <2>4, <2>5
  <2> QED BY <2>5, <2>6, AppendLogKeeps
<1>3. CASE IndexRebuild
  <2>1. UNCHANGED <<log, said>>
    BY <1>3 DEF IndexRebuild
  <2> QED BY <2>1, LogUntouched
<1>4. CASE LogAppend
  <2>1. PICK n \in Notes : AppendLog("ingest", n.note, n.title)
    BY <1>4 DEF LogAppend
  <2>2. n \in [title : Text, note : Text]
    BY ManagedFilesAssumption
  <2>3. PICK title \in Text, note \in Text : title = n.title /\ note = n.note
    BY ONLY <2>2
  <2>4. PICK op \in Words : op = "ingest" /\ op # "NL"
    BY <1>w
  <2>5. AppendLog(op, note, title)
    BY ONLY <2>1, <2>3, <2>4
  <2> QED BY <2>4, <2>5, AppendLogKeeps
<1>5. CASE UNCHANGED filesVars
  <2>1. UNCHANGED <<log, said>>
    BY <1>5 DEF filesVars
  <2> QED BY <2>1, LogUntouched
<1> QED BY <1>1, <1>2, <1>3, <1>4, <1>5 DEF FilesNext

\* The survivors are told in their places.
LEMMA LogTold == LogInv => CleanLogSurvives
<1> SUFFICES ASSUME LogInv PROVE CleanLogSurvives
  OBVIOUS
<1>1. PICK es \in Seq(LogEntry), r \in Seq(LogEntry) : es = said /\ r = ReadLog(log)
  <2>1. said \in Seq(LogEntry) /\ log \in Seq(Text)
    BY DEF LogInv
  <2>2. ReadLog(log) \in Seq(LogEntry)
    BY <2>1, ReadLogIs
  <2> QED BY <2>1, <2>2
<1>2. PICK f : Relogged(f, r, es)
  BY <1>1 DEF LogInv
<1>3. PICK N \in Nat, R \in Nat : N = Len(es) /\ R = Len(r) /\ DOMAIN es = 1 .. N /\ DOMAIN r = 1 .. R
  OBVIOUS
<1>4. \A n \in Survivors :
         /\ n \in 1 .. N /\ CleanNote(es[n])
         /\ n < N => ~Begins(es[n + 1].title, "NL")
  BY ONLY <1>1, <1>3 DEF Survivors
<1>5. ASSUME NEW n \in Survivors PROVE n \in Whole(es) /\ (n < N => n + 1 \in Whole(es))
  <2>1. n \in 1 .. N /\ CleanNote(es[n])
    BY ONLY <1>4, n \in Survivors
  <2>2. es[n].title \in Text
    <3>1. es[n] \in LogEntry
      BY ONLY <1>3, <2>1, es \in Seq(LogEntry)
    <3> QED BY ONLY <3>1 DEF LogEntry
  <2>3. Free(es[n].title, {"NL"})
    BY ONLY <2>1 DEF CleanNote
  <2>4. ~Begins(es[n].title, "NL")
    BY ONLY <2>2, <2>3, FreeBegins
  <2>5. n < N => n + 1 \in 1 .. N
    BY ONLY <2>1, N \in Nat
  <2> QED BY ONLY <1>3, <1>4, <2>1, <2>4, <2>5, n \in Survivors DEF Whole
<1> DEFINE g == [n \in Survivors |-> f[n]]
<1>6. g \in [Survivors -> DOMAIN r]
  <2>1. \A n \in Survivors : f[n] \in 1 .. R
    BY ONLY <1>2, <1>3, <1>5 DEF Relogged
  <2> QED BY <1>3, <2>1
<1>7. \A m, n \in Survivors : r[g[m]] = es[m] /\ (m < n => g[m] < g[n])
  <2> TAKE m, n \in Survivors
  <2>1. g[m] = f[m] /\ g[n] = f[n]
    OBVIOUS
  <2>2. m \in Whole(es) /\ n \in Whole(es) /\ (m < N => m + 1 \in Whole(es)) /\ CleanNote(es[m])
    BY ONLY <1>4, <1>5, m \in Survivors, n \in Survivors
  <2>3. m < n => f[m] < f[n]
    BY ONLY <1>2, <2>2 DEF Relogged
  <2>4. r[f[m]] = es[m]
    BY ONLY <1>2, <1>3, <2>2 DEF Relogged
  <2> QED BY ONLY <2>1, <2>3, <2>4
<1> HIDE DEF g
<1> QED BY ONLY <1>1, <1>6, <1>7 DEF CleanLogSurvives

\* A log entry that holds no heading stays as it was given, in its place among
\* the others, however often AppendLog reads the log and writes it again
\* (internal/log/log.go).
THEOREM CleanLog == FilesSpec => []CleanLogSurvives
<1>1. FilesInit => IndexInv /\ CleanEntriesSurvive /\ LogInv
  BY IndexInvInit, LogInvInit
<1>2. IndexInv /\ CleanEntriesSurvive /\ LogInv /\ [FilesNext]_filesVars
        => (IndexInv /\ CleanEntriesSurvive /\ LogInv)'
  BY IndexInvNext, LogInvNext
<1>3. LogInv => CleanLogSurvives
  BY LogTold
<1> QED BY <1>1, <1>2, <1>3, PTL DEF FilesSpec

\* The ghost is a Boolean.
LEMMA GarbledIs == garbled \in BOOLEAN /\ [FilesNext]_filesVars => garbled' \in BOOLEAN
<1> SUFFICES ASSUME garbled \in BOOLEAN, [FilesNext]_filesVars PROVE garbled' \in BOOLEAN
  OBVIOUS
<1>1. ASSUME NEW p \in Pages, WritePage(p) PROVE garbled' \in BOOLEAN
  BY <1>1 DEF WritePage
<1>2. ASSUME NEW p \in Pages, IndexAdd(p) PROVE garbled' \in BOOLEAN
  BY <1>2, Zenon DEF IndexAdd
<1>3. ASSUME NEW p \in Pages, IndexRemove(p) \/ DeletePage(p) PROVE garbled' \in BOOLEAN
  BY <1>3 DEF IndexRemove, DeletePage, RemoveEntry
<1>4. CASE IndexRebuild
  <2>1. garbled' = (\E n \in DOMAIN RebuiltEntries : ~CleanEntry(RebuiltEntries[n]))
    BY <1>4, RebuildIs
  <2> QED BY <2>1, Zenon
<1>5. CASE LogAppend \/ UNCHANGED filesVars
  BY <1>5 DEF LogAppend, filesVars
<1> QED BY <1>1, <1>2, <1>3, <1>4, <1>5 DEF FilesNext

\* The pages, the lines of the two files and the ghosts keep their types: in
\* particular what ReadIndex and ReadLog make of any line is an entry.
THEOREM FilesTypes == FilesSpec => []FilesTypeOK
<1>1. FilesInit => IndexInv /\ CleanEntriesSurvive /\ LogInv /\ garbled \in BOOLEAN
  <2>1. FilesInit => garbled \in BOOLEAN
    BY DEF FilesInit
  <2> QED BY <2>1, IndexInvInit, LogInvInit
<1>2. IndexInv /\ CleanEntriesSurvive /\ LogInv /\ garbled \in BOOLEAN /\ [FilesNext]_filesVars
        => (IndexInv /\ CleanEntriesSurvive /\ LogInv /\ garbled \in BOOLEAN)'
  BY IndexInvNext, LogInvNext, GarbledIs
<1>3. IndexInv /\ LogInv /\ garbled \in BOOLEAN => FilesTypeOK
  BY DEF IndexInv, LogInv, FilesTypeOK
<1> QED BY <1>1, <1>2, <1>3, PTL DEF FilesSpec
=============================================================================
