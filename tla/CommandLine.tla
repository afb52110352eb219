----------------------------- MODULE CommandLine -----------------------------
(* The commands of `revex` (apps/cli/src): processes started from a shell    *)
(* that read, check and rewrite the JSON registry of tenants, write the      *)
(* files of a new workspace, pack archives, show a configuration, or post to *)
(* the server.  Two may run at once and any may be killed; each sleeps at    *)
(* every file operation.  The server reads registry.db (module Accounts) and *)
(* never these files.                                                        *)
EXTENDS Integers, Sequences, SequencesExt, FiniteSets

CONSTANTS
  Shells,        \* where commands are started, one at a time each
  Tenants,       \* ids of workspaces
  SpaceNames,    \* names given to init
  SlugOf,        \* slug(): the directory of each
  MaxCommands    \* bound on the commands started

ASSUME CommandAssumption == MaxCommands \in Nat /\ DOMAIN SlugOf = SpaceNames

VARIABLES
  homeMade,    \* whether the home directory exists
  files,       \* name -> [text, holds]: a sequence of ids or names
  shell,       \* [at, op, on, due, exit] of the command in each
  started,
  ledger,      \* history: the tenants that stand by the answers given
  disturbed    \* history: files two commands worked on at once, or a kill left torn

commandVars == <<homeMade, files, shell, started, ledger, disturbed>>

RegistryFile == <<"home", "registry">>
FilesOf(slug) == {<<slug, f>> : f \in {"manifest", "config"}}
Archive(id) == <<id, "archive">>
CliFiles ==
  {RegistryFile} \cup (UNION {FilesOf(SlugOf[n]) : n \in SpaceNames})
  \cup {Archive(id) : id \in Tenants}

NoCommand == [at |-> "ready", op |-> "none", on |-> "none", due |-> <<>>, exit |-> 0]

Working(s) == shell[s].at \notin {"ready", "ended"}

CommandTypeOK ==
  /\ homeMade \in BOOLEAN /\ started \in 0 .. MaxCommands
  /\ \A f \in CliFiles : files[f].text \in {"absent", "torn", "whole"}
  /\ \A s \in Shells :
       /\ shell[s].at \in {"ready", "reading", "opening", "writing", "posting", "ended"}
       /\ shell[s].exit \in 0 .. 1
  /\ ToSet(ledger) \subseteq Tenants /\ disturbed \subseteq CliFiles

CommandInit ==
  /\ homeMade \in BOOLEAN
  /\ files = [f \in CliFiles |-> [text |-> "absent", holds |-> <<>>]]
  /\ shell = [s \in Shells |-> NoCommand]
  /\ started = 0 /\ ledger = <<>> /\ disturbed = {}

Ends(s, code) ==
  shell' = [shell EXCEPT ![s] = [@ EXCEPT !.at = "ended", !.due = <<>>, !.exit = code]]

\* The files a command is about to rewrite.
Rewrites(op, on) ==
  CASE op \in {"create", "delete"} -> {RegistryFile}
    [] op = "init" -> FilesOf(SlugOf[on])
    [] op = "backup" -> {Archive(on)}
    [] OTHER -> {}

\* A command begins; due are the writes it has before it, file and text.
Starts(s, at, op, on, due) ==
  /\ ~Working(s) /\ started < MaxCommands /\ started' = started + 1
  /\ shell' = [shell EXCEPT ![s] = [at |-> at, op |-> op, on |-> on, due |-> due, exit |-> 0]]
  /\ disturbed' = disturbed \cup
       {f \in Rewrites(op, on) :
          \E p \in Shells \ {s} : Working(p) /\ f \in Rewrites(shell[p].op, shell[p].on)}

-----------------------------------------------------------------------------
(* revex tenant.                                                           *)

\* existsSync() finds the file or not; without one the list is empty.
BeginTenant(s) ==
  /\ \E op \in {"list", "create", "delete"}, id \in Tenants : Starts(s, "reading", op, id, <<>>)
  /\ UNCHANGED <<homeMade, files, ledger>>

\* What does not parse, torn or empty, counts as no entries.
ReadRegistry == IF files[RegistryFile].text = "whole" THEN files[RegistryFile].holds ELSE <<>>

\* Mutant: an id that is there is registered again.
Listed_Never(ids, id) == FALSE
Listed(ids, id) == id \in ToSet(ids)

\* What filter() leaves of the list.
Without(ids, id) == SelectSeq(ids, LAMBDA i : i # id)

\* The answer of create and delete, or the text they are going to write.
DecideTenant(s) ==
  LET ids == ReadRegistry
      c == shell[s]
      next == IF c.op = "create" THEN Append(ids, c.on) ELSE Without(ids, c.on)
      refused == (c.op = "create") = Listed(ids, c.on)
      due == <<<<RegistryFile, next>>>>
  IN  /\ c.at = "reading" /\ c.op \in {"list", "create", "delete"}
      /\ IF c.op = "list" THEN Ends(s, 0)
         ELSE IF refused THEN Ends(s, 1)
         ELSE shell' = [shell EXCEPT ![s] = [@ EXCEPT !.at = "opening", !.due = due]]
      /\ UNCHANGED <<homeMade, files, started, ledger, disturbed>>

-----------------------------------------------------------------------------
(* revex init, backup and config.                                          *)

\* Mutant: every name falls back to the same directory.
Slug_Fallback(name) == SlugOf[CHOOSE n \in SpaceNames : TRUE]
Slug(name) == SlugOf[name]

\* mkdir with its parents, the manifest, and the configuration if it was asked for.
BeginInit(s) ==
  /\ \E n \in SpaceNames : \E withConfig \in BOOLEAN :
       LET file(f) == <<<<Slug(n), f>>, <<n>>>>
       IN  Starts(s, "opening", "init", n,
                  <<file("manifest")>> \o (IF withConfig THEN <<file("config")>> ELSE <<>>))
  /\ homeMade' = TRUE
  /\ UNCHANGED <<files, ledger>>

\* What tarPack() yields of a workspace: nothing.
Packed(id) == <<>>

\* The archive is written; restore opens neither the archive nor the directory, and
\* verify reads the archive.
BeginBackup(s) ==
  /\ \E id \in Tenants : Starts(s, "opening", "backup", id, <<<<Archive(id), Packed(id)>>>>)
  /\ UNCHANGED <<homeMade, files, ledger>>

RestoreOrVerify(s) ==
  /\ \E id \in Tenants, op \in {"restore", "verify"} : Starts(s, "posting", op, id, <<>>)
  /\ UNCHANGED <<homeMade, files, ledger>>

\* The configuration shown from a directory: none when the file does not parse.
ShownConfig(slug) ==
  IF files[<<slug, "config">>].text = "whole" THEN files[<<slug, "config">>].holds ELSE <<>>

-----------------------------------------------------------------------------
(* writeFile(): opened and truncated, written from the start, closed.      *)

Target(s) == Head(shell[s].due)[1]

\* The registry needs its directory, which tenant does not make.
TruncateFile(s) ==
  /\ shell[s].at = "opening"
  /\ IF Target(s) = RegistryFile /\ ~homeMade
     THEN Ends(s, 1) /\ UNCHANGED files
     ELSE /\ shell' = [shell EXCEPT ![s].at = "writing"]
          /\ files' = [files EXCEPT ![Target(s)] = [text |-> "torn", holds |-> <<>>]]
  /\ UNCHANGED <<homeMade, started, ledger, disturbed>>

\* The text stands from the beginning; the end of a longer one another command wrote
\* in between stays behind it.
WriteFile(s) ==
  LET f == Target(s)
      text == Head(shell[s].due)[2]
      rest == Tail(shell[s].due)
      over == files[f].text = "whole" /\ files[f].holds # text
      torn == [text |-> "torn", holds |-> <<>>]
      mine == [text |-> "whole", holds |-> text]
  IN  /\ shell[s].at = "writing"
      /\ \/ ~(over /\ Len(files[f].holds) > Len(text)) /\ files' = [files EXCEPT ![f] = mine]
         \/ over /\ Len(files[f].holds) >= Len(text) /\ files' = [files EXCEPT ![f] = torn]
      /\ IF rest = <<>> THEN Ends(s, 0)
         ELSE shell' = [shell EXCEPT ![s] = [@ EXCEPT !.at = "opening", !.due = rest]]
      /\ ledger' = CASE shell[s].op = "create" -> Append(ledger, shell[s].on)
                     [] shell[s].op = "delete" -> Without(ledger, shell[s].on)
                     [] OTHER -> ledger
      /\ UNCHANGED <<homeMade, started, disturbed>>

\* The process is killed; a file it has truncated stays torn.
Kill(s) ==
  /\ Working(s) /\ Ends(s, 1)
  /\ disturbed' = disturbed \cup {f \in CliFiles : shell[s].at = "writing" /\ f = Target(s)}
  /\ UNCHANGED <<homeMade, files, started, ledger>>

-----------------------------------------------------------------------------
(* revex ingest, query and feedback post to the server, without a token and  *)
(* without an origin; queue, migrate and eval print and are done.            *)

Posts(s, op) == Starts(s, "posting", op, "none", <<>>) /\ UNCHANGED <<homeMade, files, ledger>>

IngestFile(s) == Posts(s, "ingest")
AskQuestionOf(s) == Posts(s, "query")
RateTurn(s) == Posts(s, "feedback")

\* list, stats, purge and submit of the queue, and both migrations: what they print
\* says it was done.
PrintQueue(s) == Posts(s, "queue")
PrintMigration(s) == Posts(s, "migrate")

\* The harness is given the name of the file for its text and finds no sample in it.
RunEval(s) == Posts(s, "eval")

BeginPost(s) ==
  \/ IngestFile(s) \/ AskQuestionOf(s) \/ RateTurn(s)
  \/ PrintQueue(s) \/ PrintMigration(s) \/ RunEval(s)

\* An answer that is no success, a file that cannot be read and a connection that
\* fails end the command with 1; so does a rating feedback does not know.  restore
\* reads nothing and never fails; verify does without an archive.
EndPost(s) ==
  /\ shell[s].at = "posting"
  /\ \E code \in 0 .. 1 :
       /\ shell[s].op \in {"restore", "queue", "migrate", "eval"} => code = 0
       /\ shell[s].op = "verify" /\ files[Archive(shell[s].on)].text = "absent" => code = 1
       /\ Ends(s, code)
  /\ UNCHANGED <<homeMade, files, started, ledger, disturbed>>

TenantNext ==
  \E s \in Shells : BeginTenant(s) \/ DecideTenant(s) \/ TruncateFile(s) \/ WriteFile(s) \/ Kill(s)

SpaceNext ==
  \E s \in Shells :
    \/ BeginInit(s) \/ BeginBackup(s) \/ RestoreOrVerify(s) \/ BeginPost(s)
    \/ TruncateFile(s) \/ WriteFile(s) \/ EndPost(s) \/ Kill(s)

CommandNext == TenantNext \/ SpaceNext

CommandSpec == CommandInit /\ [][CommandNext]_commandVars

-----------------------------------------------------------------------------
(* Properties.                                                             *)

\* As long as no two commands changed the registry at once and none was killed in the
\* middle of writing it, it lists the tenants that were registered and not deleted:
\* a command that ends with 1, one that finds no directory and one that is killed while
\* it reads leave it as it was.
TenantsAreKept ==
  RegistryFile \notin disturbed /\ (\A s \in Shells : shell[s].at # "writing")
    => ReadRegistry = ledger

\* Whichever commands overlap or are killed: what is read of the registry, though one of
\* two changes may be lost, names no tenant twice, and so a delete leaves none of it.
TenantsAreDistinct == IsInjective(ReadRegistry)

\* Whoever is told that a workspace was initialised has a manifest of that name, also
\* when other commands ran beside, failed or were killed - unless a name with the same
\* directory came in between.
InitIsFound ==
  \A s \in Shells :
    LET n == shell[s].on
        own == <<SlugOf[n], "manifest">>
    IN  shell[s].op = "init" /\ shell[s].at = "ended" /\ shell[s].exit = 0
          /\ (\A m \in SpaceNames : SlugOf[m] = SlugOf[n] => m = n) /\ own \notin disturbed
          /\ (\A p \in Shells : Working(p) /\ shell[p].due # <<>> => Target(p) # own)
        => files[own] = [text |-> "whole", holds |-> <<n>>]

\* A configuration that is shown was written for the directory it is read from.
ConfigIsOfSpace ==
  \A m \in SpaceNames :
    \A i \in DOMAIN ShownConfig(SlugOf[m]) : SlugOf[ShownConfig(SlugOf[m])[i]] = SlugOf[m]

CommandsKeepFiles == TenantsAreKept /\ InitIsFound /\ ConfigIsOfSpace
=============================================================================
