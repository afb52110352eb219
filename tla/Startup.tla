------------------------------ MODULE Startup ------------------------------
(* What a process sets up before it serves: the settings read from its       *)
(* environment, the config file, the registries of plugins, the passphrase   *)
(* vault, the key check of a workspace file, and telemetry (core/settings,   *)
(* plugins, feedback, telemetry, encryption.ts, passphrase-vault.ts).        *)
EXTENDS Integers, Sequences, SequencesExt, FiniteSets, FiniteSetsExt

CONSTANTS
  MaxOdd,        \* bound on the variables that are not as they should be
  Names,         \* keys of a config file
  Indents,       \* indentations of its lines
  MaxLines,      \* bound on them
  Plugins,       \* names plugins are registered under
  Passphrases,
  Openers,       \* processes that open one workspace file
  SettingKeys,   \* rows of workspace_settings
  Attributes,    \* attribute names of a span
  SecretKeys     \* those of them SECRET_KEY_RE matches

ASSUME StartupAssumption ==
  /\ Indents \subseteq Nat /\ MaxLines \in Nat /\ MaxOdd \in Nat
  /\ SecretKeys \subseteq Attributes /\ "" \notin Passphrases

VARIABLES
  settings,    \* what loadSettings() was given and returned
  lines,       \* the lines of the YAML file read so far
  stack,       \* parseYamlSubset: the open objects, [indent, path]
  tree,        \* the values assigned: [path, value]
  entries,     \* the registry of one group: who registered each name, or "none"
  registered,  \* the flag of registerBuiltInScorers()
  cleared,     \* whether Registry.clear() was called since
  vaultMode,   \* REVEX_PASSPHRASE_VAULT
  vaultKey,    \* InMemoryPassphraseVault: the passphrase of the workspace, or ""
  keycheck,    \* workspace_keycheck: the key its verifier was made with, or none
  openers,     \* [at, pass, key] of each process
  rows,        \* workspace_settings: the keys each row is readable with
  raced,       \* whether two processes found the key check missing at once
  leaked       \* secret attributes that left unmasked: by a span, later, or in an array

settingsVars == <<settings, lines, stack, tree>>
registryVars == <<entries, registered, cleared>>
keyVars == <<vaultMode, vaultKey, keycheck, openers, rows, raced>>
startupVars == <<settingsVars, registryVars, keyVars, leaked>>

-----------------------------------------------------------------------------
(* loadSettings().                                                         *)

\* The kinds of settings, and what a variable can hold: nothing, the empty string,
\* a value its schema takes, a well-formed value out of range, or junk.
Kinds == {"text", "choice", "number", "flag", "secret", "apiKey"}
Raw == {"absent", "empty", "good", "range", "junk"}
Setting == {"default", "good", "off", "empty", "shared", "none", "invalid"}

\* num() makes nothing of what is no number, so the default applies; bool() makes
\* false of what is neither 'true' nor '1'.
Parsed(kind, raw, shared) ==
  CASE kind = "number" -> CASE raw = "good" -> "good" [] raw = "range" -> "invalid" [] OTHER -> "default"
    [] kind = "flag" -> CASE raw = "absent" -> "default" [] raw = "good" -> "good" [] OTHER -> "off"
    [] kind = "apiKey" -> IF raw # "absent" THEN IF raw = "empty" THEN "empty" ELSE "good"
                          ELSE IF shared THEN "shared" ELSE "none"
    [] kind = "text" -> CASE raw = "absent" -> "default" [] raw = "empty" -> "invalid" [] OTHER -> "good"
    [] kind = "choice" -> CASE raw = "absent" -> "default" [] raw = "good" -> "good" [] OTHER -> "invalid"
    [] kind = "secret" -> IF raw = "good" THEN "good" ELSE "invalid"

\* What the process may find: at most MaxOdd variables are not what they should be.
Environments == {env \in [Kinds -> Raw] : Cardinality({k \in Kinds : env[k] # "good"}) <= MaxOdd}

\* One setting that is invalid refuses them all.
LoadSettings ==
  /\ settings.env = <<>>
  /\ \E env \in Environments, shared \in BOOLEAN :
    LET parsed == [k \in Kinds |-> Parsed(k, env[k], shared)]
    IN  /\ settings' = [env |-> <<env>>,
             values |-> IF \E k \in Kinds : parsed[k] = "invalid" THEN <<>> ELSE <<parsed>>]
        /\ UNCHANGED <<lines, stack, tree, registryVars, keyVars, leaked>>

-----------------------------------------------------------------------------
(* parseYamlSubset(), a line at a time.  A list never forms: a key without a *)
(* value opens an object, and `- item` is neither a key nor pushed to one.   *)

LineKinds == {"header", "pair", "item"}
Line == [indent : Indents, kind : LineKinds, name : Names]

\* Mutant: a line closes the objects that are indented deeper, not its siblings.
Open_Deeper(st, indent) == SelectSeq(st, LAMBDA o : o.indent <= indent)

\* while (top.indent >= indent) pop: indents on the stack increase.
Open(st, indent) == SelectSeq(st, LAMBDA o : o.indent < indent)

Assign(tr, path, value) ==
  {a \in tr : ~IsPrefix(path, a.path)} \cup {[path |-> path, value |-> value]}

ReadLine ==
  /\ Len(lines) < MaxLines
  /\ \E line \in Line :
       LET open == Open(stack, line.indent)
           path == Append(IF open = <<>> THEN <<>> ELSE Last(open).path, line.name)
       IN  /\ lines' = Append(lines, line)
           /\ stack' = IF line.kind = "header"
                       THEN Append(open, [indent |-> line.indent, path |-> path]) ELSE open
           /\ tree' = CASE line.kind = "header" -> Assign(tree, path, 0)
                        [] line.kind = "pair" -> Assign(tree, path, Len(lines) + 1)
                        [] OTHER -> tree
  /\ UNCHANGED <<settings, registryVars, keyVars, leaked>>

-----------------------------------------------------------------------------
(* Registry, registerBuiltInScorers() and registerBuiltInRerankers().      *)

BuiltIns == <<"noop", "bm25_boost", "vector_downweight">>

\* Mutant: the last registration of a name wins.
Free_Always(name) == TRUE
Free(name) == entries[name] = "none"

\* register() throws on a name that is taken.
RegisterPlugin(name) ==
  /\ Free(name) /\ entries' = [entries EXCEPT ![name] = "plugin"]
  /\ UNCHANGED <<registered, cleared, settingsVars, keyVars, leaked>>

\* Three registrations in a row; the first that throws leaves those before it, and
\* the flag as it was.
RegisterBuiltIns ==
  /\ ~registered
  /\ LET taken == {i \in DOMAIN BuiltIns : ~Free(BuiltIns[i])}
         upTo == IF taken = {} THEN Len(BuiltIns) ELSE Min(taken) - 1
     IN  /\ entries' = [n \in DOMAIN entries |->
                          IF \E i \in 1 .. upTo : BuiltIns[i] = n THEN "builtin" ELSE entries[n]]
         /\ registered' = (taken = {}) /\ cleared' = (cleared /\ taken # {})
  /\ UNCHANGED <<settingsVars, keyVars, leaked>>

\* clear() does not reset the flags, so the built-in ones never come back.
ClearRegistry ==
  /\ entries' = [n \in DOMAIN entries |-> "none"] /\ cleared' = TRUE
  /\ UNCHANGED <<registered, settingsVars, keyVars, leaked>>

-----------------------------------------------------------------------------
(* The vault, and openEncryptedWorkspace() of several processes.           *)

NoKey == [pass |-> "", salt |-> "none"]

\* KmsPassphraseVault: put() always throws, and the fallback of get() is a memory
\* vault nothing was put into.
VaultPut(p) ==
  /\ vaultMode = "memory" /\ vaultKey' = p
  /\ UNCHANGED <<vaultMode, keycheck, openers, rows, raced, settingsVars, registryVars, leaked>>

VaultRemove ==
  /\ vaultMode = "memory" /\ vaultKey' = ""
  /\ UNCHANGED <<vaultMode, keycheck, openers, rows, raced, settingsVars, registryVars, leaked>>

\* Mutant: every opener with a passphrase makes the verifier anew.
Fresh_Always(p) == p # ""
Fresh(p) == p # "" /\ keycheck = NoKey

\* readKeycheck(): with the passphrase of a request, or of the vault.
ReadKeycheck(o) ==
  /\ openers[o].at = "closed"
  /\ \E p \in Passphrases \cup {vaultKey} :
       LET fresh == Fresh(p)
           key == IF p = "" THEN NoKey ELSE [pass |-> p, salt |-> keycheck.salt]
       IN  /\ openers' = [openers EXCEPT ![o] =
                 [at |-> IF fresh THEN "deriving"
                         ELSE IF key \in {NoKey, keycheck} THEN "open" ELSE "closed",
                  key |-> IF fresh THEN [pass |-> p, salt |-> o] ELSE key]]
           /\ raced' = (raced \/ (fresh /\ \E q \in Openers \ {o} : openers[q].at = "deriving"))
  /\ UNCHANGED <<vaultMode, vaultKey, keycheck, rows, settingsVars, registryVars, leaked>>

\* writeKeycheck(): INSERT OR REPLACE, once scrypt has made the key.
WriteKeycheck(o) ==
  /\ openers[o].at = "deriving"
  /\ keycheck' = openers[o].key /\ openers' = [openers EXCEPT ![o].at = "open"]
  /\ UNCHANGED <<vaultMode, vaultKey, rows, raced, settingsVars, registryVars, leaked>>

CloseHandle(o) ==
  /\ openers[o].at = "open" /\ openers' = [openers EXCEPT ![o] = [at |-> "closed", key |-> NoKey]]
  /\ UNCHANGED <<vaultMode, vaultKey, keycheck, rows, raced, settingsVars, registryVars, leaked>>

\* settings.set(), delete(): the key of the handle, or none.
SetSetting(o, k) ==
  /\ openers[o].at = "open"
  /\ \/ rows' = [rows EXCEPT ![k] = {openers[o].key}]
     \/ rows' = [rows EXCEPT ![k] = {}]
  /\ UNCHANGED <<vaultMode, vaultKey, keycheck, openers, raced, settingsVars, registryVars, leaked>>

\* settings.get(): the value; null of no row, and of ciphertext without a key; and
\* with a key an exception on what it does not decrypt, plain text included.
GetSetting(key, row) ==
  IF row = {key} THEN "value" ELSE IF row = {} \/ key = NoKey THEN "null" ELSE "throws"

-----------------------------------------------------------------------------
(* RedactingTelemetry.                                                     *)

\* Mutant: only the names at the top are looked at.
Masked_Top(key, under) == key \in SecretKeys /\ under = "top"

\* scrubSecrets(): names at the top and in nested objects; arrays are left as
\* they are.
Masked(key, under) == key \in SecretKeys /\ under # "array"

\* event() and span() forward what is left; the span is the inner one, so what is
\* set on it later is not looked at.
Emit(key, under) ==
  /\ leaked' = IF key \in SecretKeys /\ ~Masked(key, under) THEN leaked \cup {<<key, under>>} ELSE leaked
  /\ UNCHANGED <<settingsVars, registryVars, keyVars>>

SetAttribute(key) ==
  /\ leaked' = IF key \in SecretKeys THEN leaked \cup {<<key, "later">>} ELSE leaked
  /\ UNCHANGED <<settingsVars, registryVars, keyVars>>

-----------------------------------------------------------------------------

StartupInit ==
  /\ settings = [env |-> <<>>, values |-> <<>>]
  /\ lines = <<>> /\ stack = <<>> /\ tree = {}
  /\ entries = [n \in Plugins \cup ToSet(BuiltIns) |-> "none"] /\ registered = FALSE /\ cleared = FALSE
  /\ vaultMode \in {"memory", "kms"} /\ vaultKey = ""
  /\ keycheck = NoKey /\ openers = [o \in Openers |-> [at |-> "closed", key |-> NoKey]]
  /\ rows = [k \in SettingKeys |-> {}] /\ raced = FALSE
  /\ leaked = {}

RegistryNext ==
  \/ \E n \in Plugins \cup ToSet(BuiltIns) : RegisterPlugin(n)
  \/ RegisterBuiltIns \/ ClearRegistry

KeyNext ==
  \/ \E p \in Passphrases : VaultPut(p)
  \/ VaultRemove
  \/ \E o \in Openers : ReadKeycheck(o) \/ WriteKeycheck(o) \/ CloseHandle(o)
  \/ \E o \in Openers : \E k \in SettingKeys : SetSetting(o, k)

TelemetryNext ==
  \E key \in Attributes : SetAttribute(key) \/ \E under \in {"top", "object", "array"} : Emit(key, under)

StartupNext == LoadSettings \/ ReadLine \/ RegistryNext \/ KeyNext \/ TelemetryNext

StartupSpec == StartupInit /\ [][StartupNext]_startupVars

KeyType == [pass : Passphrases \cup {""}, salt : Openers \cup {"none"}]

StartupTypeOK ==
  /\ \A i \in DOMAIN settings.values : settings.values[i] \in [Kinds -> Setting]
  /\ lines \in Seq(Line)
  /\ \A i \in DOMAIN stack : stack[i].indent \in Indents /\ stack[i].path \in Seq(Names)
  /\ \A t \in tree : t.path \in Seq(Names) /\ t.value \in Nat
  /\ entries \in [Plugins \cup ToSet(BuiltIns) -> {"none", "plugin", "builtin"}]
  /\ registered \in BOOLEAN /\ cleared \in BOOLEAN /\ raced \in BOOLEAN
  /\ vaultMode \in {"memory", "kms"} /\ vaultKey \in Passphrases \cup {""} /\ keycheck \in KeyType
  /\ openers \in [Openers -> [at : {"closed", "deriving", "open"}, key : KeyType]]
  /\ rows \in [SettingKeys -> SUBSET KeyType]
  /\ leaked \subseteq Attributes \X {"top", "object", "array", "later"}

-----------------------------------------------------------------------------
(* Properties.                                                             *)

\* Settings that load are those of the environment: no value out of its range gets
\* through, and one its schema takes is never replaced by the default.
SettingsAreHeard ==
  settings.values # <<>> =>
    \A k \in Kinds :
      /\ settings.env[1][k] = "good" => settings.values[1][k] = "good"
      /\ settings.env[1][k] = "range" =>
           settings.values[1][k] \in {"good", "off"} /\ k \notin {"number", "choice", "secret"}

\* The header a line stands under: the last one with a smaller indent that no line
\* in between closes.
Under(i) ==
  {j \in 1 .. i - 1 : /\ lines[j].kind = "header" /\ lines[j].indent < lines[i].indent
                      /\ \A k \in j + 1 .. i - 1 : lines[k].indent > lines[j].indent}

\* The names on the way to a line.
PathOf(i) ==
  LET above == SetToSortSeq(Under(i), <)
  IN  Append([n \in DOMAIN above |-> lines[above[n]].name], lines[i].name)

\* The nested objects of a config file are those its indentation draws: a value is
\* found under the headers above it, and nowhere else, unless a later line gives
\* the name again.
ConfigNests ==
  \A i \in DOMAIN lines :
    lines[i].kind = "pair" /\ (\A k \in i + 1 .. Len(lines) :
                                  lines[k].kind # "item" => ~IsPrefix(PathOf(k), PathOf(i)) )
      => {t.path : t \in {u \in tree : u.value = i}} = {PathOf(i)}

\* Once the built-in plugins are registered the flag keeps them from being
\* registered twice, and they are what their names stand for until somebody clears
\* the group: no plugin takes a name that is taken.
BuiltInsStay ==
  registered /\ ~cleared => \A i \in DOMAIN BuiltIns : entries[BuiltIns[i]] = "builtin"

\* A workspace keeps the passphrase that opened it first: unless two processes
\* found it without one at once, every handle has the key of its verifier, and
\* reads every row an earlier handle with a passphrase wrote.
OnePassphrase ==
  ~raced => \A o \in Openers :
    openers[o].at = "open" /\ openers[o].key # NoKey =>
      /\ openers[o].key = keycheck
      /\ \A k \in SettingKeys : NoKey \notin rows[k] => GetSetting(keycheck, rows[k]) # "throws"

\* Secrets are masked before they are forwarded: those at the top and in nested
\* objects never leave; what leaves was in an array or set on a span later.
SecretsAreMasked == \A l \in leaked : l[2] \in {"array", "later"}

\* What a process starts with is what it was configured with: settings, plugins and
\* passphrase.
StartsAsConfigured == SettingsAreHeard /\ BuiltInsStay /\ OnePassphrase
=============================================================================
