# Formal models of akb

akb keeps a knowledge base of markdown pages in a directory, usually inside a git repository. Every
invocation is a short-lived process that runs one command on one base. This directory models the
parts of akb where the order of steps matters: who holds which lock, what is read before and used
after it, what is left when a step fails, and what the database says of the files.

Every definition is translated from the Go source under `src/`; `PROJECT.json` maps it to its lines.

## The system

| part | state | operations | what makes it correct |
|---|---|---|---|
| store lock (`internal/storage`: `LockRepo`, `Store.Lock`) | a flock on `akb.lock` in the git common dir, or on `.agent-kb/akb.lock`; per process a reference count and handles | acquire, nested acquire, release, process exit | mutual exclusion per repository, no deadlock with oneself, no early or lost release |
| git provider (`internal/storage`: `GitProvider`, `Store`, `CommitFiles`) | worktree, git index, HEAD, `MERGE_HEAD`, `index.lock` | write, delete, stage, commit, with retries | a commit records the operation's own files only; a reported success is a commit; merges of the host block akb before it writes |
| page commands (`cmd/akb`: write, append, approve, delete) | page files | create, replace, extend, approve, remove, in batches too | no lost update, no approval of what is no draft; a path addresses the page it was reported for; no page gets past the gate of its type |
| managed files (`internal/index`, `internal/log`) | `kb/index.md`, `kb/log.md` | add, remove, rebuild, append | no lost entry, no entry of a page that is gone; what is written is read back |
| search index (`internal/search`) | `documents` rows, FTS tables | index, remove, rebuild, search | one row per page, of its present content |
| link graph (`internal/linkgraph`) | `pages` and `links` rows | update, remove, rebuild, orphans, broken links | links resolve to listed pages; queries tell the truth of the files |
| wikilink parser (`internal/markdown`) | none | find the links of a page | finds the links of the text and none in code or comments |
| lint (`internal/lint`) | none; rebuilds the links | check | reports what is wrong, and that only |
| raw files (`internal/manifest`, `cmd/akb/raw_*`) | `raw/` files and their manifest `raw/files.log` | write, delete, sync, status | the manifest lists the files with their hashes |
| templates (`internal/template`, `cmd/akb/template*`) | three files per template | write, delete, load | the three belong together |
| init (`cmd/akb/init*.go`) | the base it creates, the host's exclude file | create, refuse | a base that commands accept is complete; the host is left as it was; a refusal writes nothing |
| commit identity (`internal/storage/identity.go`) | flags, environment, `akb.yaml`, git configuration | resolve | what is reported is committed; only the base's own identity is recorded |
| path resolution (`internal/path`, `resolve_page.go`) | none | input to page path | one page per input, the same one for every command |
| config, CEL, CLI | none, or read only | | |

The commands call the store (`internal/storage/mode.go`) for the lock, the preflight, the file and
its commit, then update the database in a transaction of its own. Processes share the repository,
the files and the database and exchange no messages; the host project's own git processes share the
repository and know nothing of akb's lock.

What is hard: processes interleave at every step outside the lock, and readers and `akb lint` take
no lock at all; a process may fail or be killed between any two steps, and the file, the commit and
the database are three separate steps; the host stages, commits and merges in the same repository
while a command runs; links are resolved at one time and queried at another.

## Modules

| module | models | checked by | proved in |
|---|---|---|---|
| `Mutex` | what a lock promises: one owner per lock, entered when free, left by its owner | as `ImplementsMutex` | |
| `RepoLock` | the store lock, step by step | `MCRepoLock` | `RepoLockProofs` |
| `GitStore` | the git provider and the commit funnel against the host project | `MCGitStore` | `GitStoreProofs` |
| `PageStore` | the commands on pages, managed files and records, several processes | `MCPageStore` | `PageStoreProofs` |
| `PageCommands` | what each page command makes of its input: path, gate, rows, entries | `MCPageCommands` | `PageCommandsProofs` |
| `ManagedFiles` | the formats of `kb/index.md` and `kb/log.md`, their parsers, the commands on them | `MCManagedFiles` | `BaseProofs` |
| `LinkGraph` | the pages and links tables, the rebuild, the queries | `MCLinkGraph` | `LinkProofs` |
| `Wikilinks` | `ParseWikilinks`, loop turn by loop turn | `MCWikilinks` | `LinkProofs` |
| `RawStore` | raw files and their manifest, several processes and the host | `MCRawStore` | `RawStoreProofs` |
| `Templates` | the three files of a template, several processes | `MCTemplates` | `TemplatesProofs` |
| `InitBase` | one `akb init`, and both resolutions of the commit identity | `MCInitBase` | `BaseProofs` |

They compose by what each takes from the one below. `RepoLock` shows that the lock is a mutex, so
`PageStore` has one variable `lock` and `GitStore` one operation at a time. `GitStore` shows what a
commit does, so in `PageStore` it only succeeds or fails. `PageStore` shows at which points commands
interleave, so `LinkGraph` and `PageCommands` may take a command as one step: the one looks at what
links resolve to, the other at which page, rows and entries an input reaches. `ManagedFiles` opens up the
two files that `PageStore` takes for sets of entries, and `Wikilinks` computes the link targets
that `LinkGraph` takes as given. `RawStore` and `Templates` use the mutex and the commit in the same way
as `PageStore`; `InitBase` runs before any of them. That the variable `lock` of these three is the mutex of
`RepoLock` is a theorem of each (see Proofs).

### RepoLock

`base[p]` is the base a process works on; `handle[p][h]` follows every handle from the acquisition
to its release; `refs[p]` is the count of the process's `heldLocks` entry (a process has one base and
so one lock path); `waiting[p]` is the handle a process is blocked in `flock` for; `flock` is the
kernel's table. `LockNested`, `LockOutermost`, `FlockGranted` and `LockFails` are the paths through
`lockFile`, `Release` is `RepoLock.Release` with its three early returns, and `Exit` the kernel's
cleanup. A linked worktree is a second base with the same `RepoOf`.

`MutualExclusion` compares bases by repository, not by lock path; a lock path per base (the mutant)
breaks it. `LockInv` holds `FlockIffLive`: the flock is held exactly while a handle is live. `ImplementsMutex` maps
the flock table to `Mutex`. `WaiterProceeds` needs the fairness of `FairSpec`: a process does not stop
in the middle of a command and the kernel grants a free flock to some waiter and, in the long run, to
every one (strong fairness of the grant, since the lock may be taken again and again).

### GitStore

The three layers of git are functions from paths to contents. `op` is the command that holds the
store lock, with its program counter through `Store` and `GitProvider`: `preflight`, `derive` (the
file is written), `stage` (the managed files of a deletion), `recheck`, `remove`, `add`, `paths` and
`commit`, or `record` and `commit` for `CommitFiles`. The kinds are a page write (`page`), a rewrite of
`kb/index.md` or `kb/log.md` (`managed`), a deletion and a raw or template command (`files`). Between any
two of its steps the host may edit, stage, commit, merge, abort the merge, or hold `index.lock`; the
operation may be killed, leaving `index.lock` behind. Git itself is modelled from how `git.go` uses it:
`commit --only` takes the worktree content of its paths, is refused during a merge and when it would
record nothing, and fails for any other reason (a hook) at any time.

`op.clear` is a ghost: a moment without a merge has been seen since the lock was taken. It is what
`MergeBlocksMutation` needs to say: a merge that was there before the command blocks it; one that
starts in the middle of it is met by the recheck or by git.

### PageStore

`page` is the files, `search` and `graph` what the two tables hold of them, `index` and `log` the two
managed files; `cmd[p]` is the command of a process, with its program counter and what it has read.
A body is the set of the operations whose text it holds, so a lost update is an operation that is no
longer in it. Each command takes the lock where its code does: `write` before it stats the page it
replaces, `append` and `approve` before they resolve it, `delete` after it found the file, `approve
--all` and `delete --orphans` per item after they collected the list. Every step may fail the way its
code does, and every process may be killed at any step. `behind` is a ghost that remembers the pages
whose command ended in an error after its first change, which is when the code tells the user to run
`akb index rebuild`; a rebuild that succeeds clears it.

`InTypeDirs` gives, for the path of a bare name, the paths of that name in the type directories. An `index add`
whose path has no file takes title and type from such a page and lists the path as it was given, without a
file and without a word about it (finding 6); every other command refuses a path without a file. `DanglingHasACause`
says that this and a deletion that warned are the only ways to an entry without a page.

### PageCommands

A path is the sequence of its components below `kb/`. `Inputs` holds one file name in the
spellings a user may give it: bare, with `kb/`, with the directory of its type, with `.`, and the ones
`ResolveKBPath` refuses (`..`, absolute, `raw/`); `.` before `raw` passes, as in the code, which cleans
the path after it looked. `WriteTarget` is the file of a full write and `WriteKey` the key of its rows, which the
code computes apart; `Resolved` is `resolveExistingPage`, with `Holding` the declared directories that
have the page, in ascending order. What is assumed of the constants: an input has a last component that
names a file (`akb write` demands the `.md` suffix), and no type directory holds `..`: a template's
author could write one, which the code only keeps inside the base (`AssertContained`), and pages outside of
`kb/` are not modelled. `Gate` is the known type, the title and
`checkRequiredFields` against the template of the *resulting* type; rules in CEL may refuse what passes it,
which changes nothing and so is a step that is not taken. Every page command, `index add`, `index
remove` and `index rebuild`, and the write and deletion of a template is one action.

Ghosts: `checked` is the pages that passed the gate of the template their type has now, `strays` the
entries `index add` made for a page it found in a type directory only, `last` the input and the path of
the last full write. `GateHolds` and `StrayEntryHasCause` are claims on those, and
`WrittenIsAddressed` says that a later command by the same input meets the page the write made.
`EntriesNamePages` is what the documents say of the index; the code breaks it (finding 6).

### ManagedFiles

A text is a sequence of `Words`: the marks that the two formats give a meaning (`- [`, `](`, `)`,
` -- `, `## `, a dated heading, ` | `, `# `), line breaks, and words without any. The numbers of a set in
their order (`InOrder`) and the elements at them (`Picked`) stand for the loops that filter, split and group. `RenderIndex`,
`ParseIndex`, `RenderLog` and `ReadLog` are the functions of `internal/index` and `internal/log`; each
command parses the whole file, changes an entry and renders all of it again, so an entry another
command garbled stays garbled or spreads. The inputs of the instance hold the marks where a user can put
them: a title with a boundary, a summary with a link, a path with a bracket, a note that begins with a
heading.

`listed` and `said` are what was given, and `garbled` remembers that an entry which cannot be read
back was added since the last rebuild. `CleanEntry` is the exact condition under which an entry comes
back; `CleanEntriesSurvive` says that clean entries survive their garbled neighbours,
`IndexTellsWhatWasAdded` that without garbled ones the index reads as given, one entry per page, and
`CleanLogSurvives` that the log keeps its clean entries, in order. What the code does not read
back: of a summary with a link, a path with `)` or a line break in any of them, and in the log the lines of
a description that begin with `# `, which the next append drops.

### Wikilinks

`ParseWikilinks` works in three loops, and one step is one turn of one of them: the lines of
`indentedCodeBlockRanges`, the bracket runs of `scanWikilinkTokens`, and the tokens that are kept or
dropped. A text is a sequence of tokens, a position the index of one, a span `[start, end)`. Fences,
inline code and comments are the spans of pairs of marks (`Spans`), with the code's own idea of what closes
a backtick (finding 8).

`CodeAsMarkdown` compares the code blocks with what CommonMark says in two situations that need no parser to
judge: above every list (`PlainCode`), and below the first item with nothing but empty lines between
(`ItemCode`); elsewhere the function is a heuristic by its own comment. The two definitions are markdown's and
know nothing of the function's variables: code may follow a heading directly, and an empty item holds code directly
below it, or none after an empty line. Whatever the function takes for code in these situations is code. The
converse has two exceptions, which are findings 12 and 13: code directly below a heading (`MissedBelowHeading`)
and code below an empty item. `LinksAreWhole` is the shape
of the result: two links overlap only where the second opens in a destination of the first that begins with
two brackets (finding 10). `PlainLinksFound` says that no link is lost by the retries of the scan or by a destination that
swallows it (but for a token that opens in the destination and ends after it, finding 11), and `Terminates`
that the retries end. Left out: tabs, numbered items, quoted titles
and `<...>` destinations, HTML other than comments. Texts that try the blocks of a page have no
parentheses, and those that try destinations have no list markers and comments.

### LinkGraph

`files` is the pages with the raw targets of their links; `rows` and `links` are the tables.
`Resolve` is `resolveTarget`: the path a target spells (`Spelled`: only a target that begins with `kb/` spells that of a page),
else the one it spells below `kb/` (`SpelledBelow`), else the pages of that name. `Lint` and
`Rebuild` walk the files in `WalkOrder` and insert the row of a page before they resolve its links.
`External` is a change without akb. The true state, `TrueBroken` and `TrueOrphans`, is the same
resolution of the files against the files.

### RawStore

A command opens the file at the cleaned path of its argument, and keys the manifest by the argument as it was
typed. `Keys` are the paths of files and the `Spellings` that are none, such as `./a.txt`; `FileOf` is the file a key
opens, and `ReadAs` the key that its line is read back as: itself for most names, the trimmed name for one with white space
around it, `Comment` (no line at all) for one that begins with `#`, `Broken` for one with a newline, which
`ValidateFilename` rejects in a write and a sync writes all the same. `Own` keys are the path of their file and read back as themselves.

`raw` is the files below `raw/`, with a content for each hash; `lines` has for every key its lines in
`raw/files.log` as the next command reads them, in order, or is `Corrupt`, which `ReadManifest` refuses; a sync writes them in
the order of a Go map, so where two files read back as one key the order of their lines is any (`Orders`). `head` is what is committed of
both; `cmd[p]` is a process with its program counter through `raw write`, `raw delete` or `raw sync`.
A command that fails or dies leaves what it had done; a process killed inside `WriteManifest` leaves the
temporary file `Temp`. `Nested` is a `files.log` in a subdirectory, which a sync passes over and a status
does not. The host changes a file, merges the manifest (keeping two lines of one file, or conflict
markers) or restores it.

`suspect` is a ghost: the keys that the host changed, that a command without success had half
done, or that a command with success recorded under a name that is not its file's own (`Misnamed`: the key it was given,
the file it opened and the key its line reads back as; findings 14 and 15). `DriftHasACause` says that a status between commands reports no other key, so it fails when an
interleaving loses a line, and when a sync calls a success what it did not repair. `Settled` is what a
success takes out of `suspect`; a file with two lines stays in it, since a write changes the first line
and status and sync look at the last. `was` and `host` remember what a command read and how often the
host had moved: `NoLineLost` and `CommitsBoth` are claims on commands the host left alone.

Outside the model are names with a `|`, which `ValidateFilename` rejects and which on disk are listed under
what comes before the bar; an argument that leads to the manifest itself or to `raw/` (`files.log/.`); and links below `raw/`.

### Templates

`dir` is the YAML, the pass mockup and the fail mockup of one template, `head` what is committed;
`PassOK` and `FailOK` say which mockups the rules accept and reject. A rule that looks at the time is
outside. A write stats the template, takes the mockups given or reads those in place, checks them, and
only then takes the lock; under it it finds that nothing changed, or renames three files, undoing the
earlier renames when one fails. `torn` is a ghost: a swap or a removal stopped half way and no command
has succeeded since.

The interesting case is a write that keeps the mockups it read before the lock, while another process
replaces or deletes the template: all three files are written anew, so they still fit each other
(`TemplateFits`). Two things the model shows and no document promises otherwise: a write without
`--force` may replace a template that was created after its stat, and a failed second or third rename
of an overwrite leaves no template, neither the new nor the old.

### InitBase

`world` is where the target is, what flags, environment and git name, and whether the base is there
already; the steps are those of `runInit`, each of which may fail. `made` is what has been written,
`config` the identity in `akb.yaml`, `author` that of the init commit. A name or an address is the source
it comes from: `"flag"`, `"env"`, `"git"` (`user.name`, `user.email`), `"exported"` (`GIT_AUTHOR_*`,
`GIT_COMMITTER_*`) or `"default"`. `ResolveInitIdentity` is what init reports, `ResolveIdentity` what a
commit uses, `Recorded` what `akb.yaml` gets.

## Runs

| run | instance | shows |
|---|---|---|
| `lock` | 2 processes, 3 bases, 3 handles each | exclusion, no leak, refinement of `Mutex`, a waiter proceeds |
| `git_store` | 1 page, 1 file set, 1 host file, 2 contents, 2 operations, 3 host steps, 2 attempts | the properties of the funnel for page, managed, deletion and file-set commands; every operation ends |
| `page_store` | 2 processes, 2 pages, 3 commands of every kind | pages, managed files and records under concurrent commands and lints |
| `page_commands` | 2 types, 8 inputs, 2 pages, 1 entry after an `index add` | rows, entries and addresses stay with the pages; the gate holds |
| `managed_files` | 3 pages, 3 entries, titles, summaries, paths and notes with marks in them | what is read back of the index and the log |
| `link_graph` | 3 pages in two directories, two of one name; 1 change made without akb | tables, rebuild, queries |
| `wikilinks` | texts of up to 4 lines of 10 kinds; lines of up to 4 pieces; destinations of up to 3 pieces and, closed or not, of up to 4 brackets, words and links; up to 4 comment marks | code blocks and links of a text; the parser ends |
| `raw_store` | 2 processes, 2 files, one with a padded name that reads back as the other, a spelling `./a` and a nested `files.log`, 2 contents, 3 commands, 1 host step | manifest and files, in the worktree and in HEAD |
| `templates` | 2 processes, 1 template, 2 rules, 2 pass mockups and 1 fail mockup, 3 commands | the three files fit, in the directory and in HEAD |
| `init` | every world (no bound) | host, identity, partial failures |
| `page_store_lint`, `raw_sync` | smaller instances of the same | findings 2 and 4 |

Bounds. Two processes meet each other at every pair of steps; a third adds only waiting for the
lock. Three commands are a setup (a page that exists), and two that race or follow each other. Two
contents tell changed from unchanged, and two pages tell a command's own page from another. Three
host steps are a merge, a change and its end, or a stage, a lock and a commit. Two operations of `git_store`
are one that fails and the one that meets what it left. Two attempts are one
that is repeated and one that is the last. Three nested acquisitions are what a write takes: for the
page, for its commit, and in the provider. Links need a pair of pages with one name in different
directories for an ambiguous target, and one more to link from. Two pages of `page_commands` are one
that an input addresses and one it might address instead; the number of commands is not bounded there,
nor in `managed_files` and `link_graph`, whose states are finite. Three entries are a clean one,
a garbled one and a third that the second may disturb. Four lines are an item, a blank line, a line and
what follows it; a nested list with a blank line between two items needs no more. Four parts of a destination
are a pair of brackets, a word, the parenthesis that ends it and the brackets or the link behind; five parts,
and nineteen kinds of lines, were tried once and show nothing else.

`SYMMETRY` is used over processes in `page_store`, `page_store_lint`, `raw_store` and
`templates`, and in `raw_store` over contents too; none of them has a liveness property. Deadlock is checked in `lock`, `link_graph`,
`page_commands` and `managed_files`; in the others the bounds, the end of the one invocation or the
end of the text end every behaviour.

Fairness. `RepoLock.FairSpec` is described above. `GitStore.FairSpec` is weak fairness of the
operation's own steps: a process that runs goes on running. Nothing is assumed of the host, so an
`index.lock` that stays forever is among the behaviours. `Wikilinks.ParseSpec` has weak fairness of its next
step: a function that was called runs until it returns.

## Findings

Runs show two of them, the definitions named here the others; each is an entry of `PROJECT.json` with the
lines of the code and of the text it disagrees with.

1. A `--no-commit` batch stays uncommitted: the last write commits its own page only, against the
   skill's advice to use `--no-commit` "on all but the last in a batch". (`LastWriteCommitsBatch` as
   PROPERTY of `MCGitStore.cfg` with `Pages = {a, b}`, `FileSets <- NoFileSets`, `MaxHostSteps = 0`.)
2. A lint that runs during a deletion puts the page's row back (run `page_store_lint`), because it
   rebuilds the link graph without the store lock.
3. A lint does not report links to a page that was removed without akb: the rebuild of the links keeps
   the rows of pages that are gone. (`LintReportsMissing` as PROPERTY of `MCLinkGraph.cfg`.)
4. `akb raw sync` does not rebuild a corrupted manifest (run `raw_sync`), though `ReadManifest` tells the
   user to run it: it fails in the same `ReadManifest`.
5. An init that cannot commit is refused after it wrote the base: the merge state and the identity are
   checked only by `Store.Commit`, and a second init finds the base already initialized.
   (`RefusesBeforeWriting` as INVARIANT of `MCInitBase.cfg`.)
6. `akb index add <page-name>.md`, as the ingest document has it, lists a page that does not exist when
   the page's type has a directory: the title is read from there, but the entry is of the name given.
   (`EntriesNamePages` as INVARIANT of `MCPageCommands.cfg`.)
7. A line of spaces after a paragraph, indented as far as code, is taken for a continuation of the
   paragraph, and an indented code block further below is then read as prose (`wikilink.go:530`). `CodeAsMarkdown`
   does not look at such texts.
8. A single backtick is closed by the end of a longer run (`wikilink.go:904`), and a link between the two is
   dropped. `inlineCodeRanges` has it as the code has it.
9. `akb write --frontmatter title=` stores a page without a title (`write.go:228`), which no later update
   or append accepts. `Update` of `PageCommands` has it; `GateHolds` asks for what the template requires.
10. `[[a]]([[b)]]` gives two links of which neither holds the other: every destination that begins with two
    brackets lifts the suppression (`wikilink.go:141`), not only one that is a bracket token, as the comment
    says, and the containment test of `pagebuilder.go` does not drop the outer one. `LinksAreWhole` has it as the code has it.
11. A token that opens in a destination and ends after it is dropped whole (`wikilink.go:108`), with a link in it:
    `[[a]](x[[y) and [[b]]` has no link to `b`. `PlainLinksFound` excepts such tokens (`Straddles`).
12. An indented block directly below a heading is read as prose (`wikilink.go:498`), as if the heading were a
    paragraph that goes on; in markdown it is code. `CodeAsMarkdown` excepts it.
13. An empty item stays open (`wikilink.go:539`), though the comment at `wikilink.go:464` says that it ends: what markdown
    calls code below it is read as prose. `CodeAsMarkdown` excepts it.
14. `akb raw write ./a.txt` writes `raw/a.txt` and a manifest line `./a.txt` (`raw_write.go:60`), which a status reports
    as one file too many and one too few; `akb raw delete ./a.txt` keeps the line `a.txt`. `DriftHasACause` and `CommitsBoth`
    except such commands (`Misnamed`).
15. A raw file whose name begins with `#`, or has white space around it, is accepted (`manifest.go:226`), and its line
    is skipped or trimmed when it is read: no write or sync of it is ever up to date. The same two properties except it.

Known and documented in the code, so no finding: a page that was linked before it was written is
listed as an orphan until a rebuild, since a link is resolved when its source is written. Init reports
another author than it commits when git's configuration names only one of name and address and
the flags or the environment only the other; `ReportedIsCommitted` has that as its precondition.

The first lint after a page was brought in without akb also reports links to it as broken, when the
walk meets them before the page; `RebuiltLinksAreExact` says from when on a rebuild is exact.

`approve.go:73` says that approve and the write path "refuse the same pages"; the model has the difference:
approve runs no CEL rules and passes a page of a type without template, which a write refuses. What the formats of the managed files do not read back is listed under ManagedFiles.

## Proofs

Each proof has one lemma per action, so that a change of one command disturbs one lemma. The
invariants below were checked by TLC before they were proved.

`RepoLockProofs` shows, for every number of processes, bases, repositories and nested acquisitions,
that `LockInv` is inductive: the count of a process is the number of its live handles, a process with
live handles has the flock of its base's lock path and nobody has a flock otherwise, a process that
is not running or is blocked has no live handle. Type correctness, exclusion, the absence of leaks and the refinement of
`Mutex` follow. `MutualExclusion` alone is not inductive: it says nothing of the counts that decide when
the flock is dropped. The assumptions are `RepoLockAssumption`: finitely many handles, and null values
that are none of the others.

`GitStoreProofs` shows, for every base, host project and bound, that an operation's pathspec names its
own files and the managed files only, that an operation on one file has one, that an operation with
`--no-commit` takes none of the steps that reach git, and that a merge that has not been seen to end is
still there. From it follow `MergeBlocksMutation`, `UnrelatedSurvive` (by the frame of every step) and
`NoCommitStaysUnstaged`. A second invariant, `Prepared`, says what an operation knows when it comes to its
commit: its files are staged as they are in the worktree, and what its pathspec leaves out had nothing
to commit, unless the host is in a merge, which makes the commit fail. `SuccessIsCommitted` follows from
that and from what `commit --only` does; it is not inductive, being about one step. The
assumptions are `GitStoreAssumption`: bounds are numbers, and the host's files are not the base's.

`PageStoreProofs` shows `NoPhantomHits`, `RecordsAgree`, `NoStaleWrite`, `ApprovesDraftsOnly` and
`NoEntryLost` for any processes, pages and number of commands (and `DanglingHasACause`, below). What makes them inductive is what a
command knows at each of its steps (`Knows`): between its read and its write a page, the index and the log
are as it read them, because it holds the lock. `Agrees(t)` says that the two records of a page are those of its
file and that a lint in progress has read that file; it holds unless a command is between the file and
the records of `t`, or one has failed there and no rebuild has repaired it (`Loose`). For
`DanglingHasACause` a second invariant, `ListsInv`, says what a command knows of the entry of its page: for an
`index add` there is a page at its path or at that name in a type directory, and a deletion that comes to the file has taken the entry out
or has warned. It needs the first invariant, which says that nobody else changes them meanwhile.

`PageCommandsProofs` shows `RecordsFollowPages`, `GateHolds` and `StrayEntryHasCause` for any types, fields,
directories and inputs. Besides them it needs what paths are made of: that trimming and cleaning
return sequences of components, and that the key of a row and the path of its file are the same (`WriteKey` and
`WriteTarget`, which the code computes apart). The two claims on addresses, `ReportedPathAddresses` and
`WrittenIsAddressed`, rest on `AddressInv`: every page is stored under a cleaned path, and the input of the last
write still leads to the page it stored through a directory that is declared. The lemmas under it say that
a clean path is left as it is, that cleaning and trimming keep the last component, and that a path with `kb/` before
it is trimmed to itself, also when it begins with another `kb` or with `raw`. Cleaning is a recursion over the path
(`Picked`); that such a function exists and what it returns is proved by induction over sets of naturals.

`LinkProofs` has two parts. The first shows `RowsFollowFiles` and `LinksNameRows` for any finite set of pages, any targets and
walk order. The rebuild walks a list; the proof takes what the walk leaves from what each row of it is
(`AllParse`: only a change without akb leaves a file that does not parse and so has no row).
`RebuiltLinksAreExact` is about one step: where the walk starts with the rows of all files, each target resolves
at every point of it as it does among the files, so the links, and with them the two queries, are those of the files.

The second part shows the three invariants of `Wikilinks` for any set of texts of any length, loop by loop. The
scan: `TokenInv` says that the tokens are whole, follow one another and lie behind the place of the scan, `CoverInv`
that every `[[a]]` behind that place is in a token. The hard case is a run of brackets that does not close: the
next try begins one bracket further right, so what the scan has passed over holds no `[[a]]`. The selection: `LinkInv` says
that a link comes from a token that is not literal text, by its brackets or by one of its destinations, and that a link into
which another reaches has a destination in brackets; `DecidedInv` that a token behind the selection
is literal, in a link, or straddles the end of one, and that what is suppressed is suppressed by a link that was kept.
`LinksAreWhole` and `PlainLinksFound` follow, the second with `CodeInv`, by which code begins where a line does. The
loop over lines: `SpanInv` says that a pending code block excludes an open paragraph, `BlankInv` that the loop remembers
whether the line before was blank, `PlainInv` that before the first item a block is pending exactly after a line of an indented run that begins the text or follows a blank line,
and `ItemInv` that with empty lines only below the first item this item alone is open, at its column.
`CodeAsMarkdown` is about the end of that loop and says nothing inside it. These four are what a turn keeps; they say what the
function goes by, and the last step of the proof compares that with markdown, which is where the two exceptions come from.

`RawStoreProofs` shows `DriftHasACause`, `NoLineLost` and `CommitsBoth` for any processes, files, spellings, contents and
steps of the host, and any way in which keys read back that `RawStoreAssumption` admits: that there are finitely many keys, that a key that is read back
reads back as itself, and that a line is broken only by a name `ValidateFilename` rejects. `DriftHasACause` looks at the moments when nobody holds the lock; what is inductive is
that a key whose line does not describe its file is suspect, or the lock holder has it half done or has just recorded it under another name
(`DriftInv`), which needs what the holder has read to be true still (`Knows`) unless the host moved since,
and then the files concerned are suspect.

`TemplatesProofs` shows all properties of `Templates`, for any processes, rules and mockups. What a
run cannot say is that no mockup escapes the check; the invariant says what a command has checked when
it comes to a step (`Checked`: past the lock, the three files it wants fit each other), what it has made
of the files (`Made`), and that the files are whole when no process is between two renames or removals
and none stopped there. `TemplateFits` alone is not inductive: it says nothing while the lock is held.
The assumptions are `TemplatesAssumption`, of which the proof uses that the lock's null value is no
process and that the bound is a number.

`BaseProofs` has two parts. The first shows the four properties of `InitBase` for every world. `IInv` says which steps are over when
`akb.yaml` is there, what a base without versioning never comes to, and that the author of the commit is the
identity the commit resolved. The two claims on identities then are about operators only: `Fill`
asks one source after the other, has `NoIdentity` for a unit, is associative and asks nobody twice, so both
resolutions, that of init and that of a command which reads `akb.yaml`, come to the same pair. The run visits every
world too; the proof says why the two orders of asking agree.

The second part of `BaseProofs` shows the three invariants of `ManagedFiles` for any words, pages, frontmatter, summaries and notes,
and any number of entries. Its lemmas say first what the operators return: `InOrderIs` and `PickedIs` (the
elements, each once, in their order), `FlattenIs` (which line of a concatenation is which line of which part), `LinesAre`
(the lines of a text, between its breaks) and `Joined` (joining the lines of a text gives the text back). From them
comes what parsing gives back of what was rendered. For the index, `EntryLine` reads a clean entry from its line, and
`ReadBack` finds it among the groups whatever the lines of the others are; for entries that are all clean, `RoundTrip` finds nothing else.
For the log, `ReadLogIs` says where the parser cuts the lines and `LogBack` that a clean entry before an entry with a heading is
cut where it ends and reads as it was.

`CleanEntriesSurvive` is inductive with the types of the state (`IndexInv`): of the index that a command reads it says enough
to say the same of the one it writes. `IndexTellsWhatWasAdded` needs that as long as nothing is garbled the listed entries are all
clean (`TellsInv`), and compares types by their lower case, since `AddEntry` puts an entry with the type of its page
among entries that were lowered when they were read. `CleanLogSurvives` is not inductive, because it speaks of the
entries that come back unchanged only: a garbled one must still be known to be there, with its heading, when the next append rewrites
it. `LogInv` therefore gives every entry that keeps its heading (`Whole`) a place in the log, in their order (`Relogged`), and says that no line of the log holds a line break.
The assumptions are `ManagedFilesAssumption`: the marks are words, the walk visits a path once, and lowering a type twice is
lowering it once.

The lock as the commands use it. `PageStoreUsesMutex`, `RawStoreUsesMutex` and `TemplatesUsesMutex` show that the
processes past their acquisition in these modules are what `Mutex` calls `inside`: each of the three implements `Mutex`
for one lock file. `LockImplementsMutex` shows the same of the lock itself, so the two sides meet in one
specification.

Type correctness is proved of every module but the abstract `Mutex`, and so not in the runs.

Only model-checked is liveness, which is outside what the proof system does: `WaiterProceeds`, `EveryOperationEnds` and
`Terminates`. Every invariant and every action property of the passing runs is a theorem. The
attempt to prove `LinksAreWhole` and `PlainLinksFound` had shown that their first form was false of texts longer than the run
had, which findings 10 and 11 came from; they are stated as the code has it, and the run has those texts.

## Not modelled

- Annotations and provenance markers, which regular expressions find, and the parsing of frontmatter,
  which is a library's; the same goes for CEL, of which the models know that a rule holds or does not.
- Symbolic links and the discovery of a base from the working directory: lookups in the file
  system of the host, without state of their own.
- The full-text query and its ranking, which are SQLite's.
- The checkers of the lint other than orphans and broken links: functions of one page that report only.
- The read-only commands, the skill installer and the framework of the command line: they print, or
  copy embedded documents.
- Torn files: a model step writes a file whole, though `os.WriteFile` truncates first.

## Plan

What would be worth adding:

1. The discovery of a base and the symbolic links of `path.go` as a decision table.
2. The lint checkers of required fields and rules, for their agreement with the gate of a write.
3. Numbered list items, tabs and quoted titles in `Wikilinks`.
