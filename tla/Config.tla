------------------------------- MODULE Config -------------------------------
(***************************************************************************)
(* The settings (config.c): a hash table with open addressing, filled with *)
(* the defaults, then changed by the command line, then by the file.       *)
(*                                                                         *)
(* A key is found in a slot when the key asked for is a prefix of the one  *)
(* in the slot (strncmp with the length of the former).  The default keys  *)
(* are not prefixes of each other, but a name on the command line may      *)
(* abbreviate one.  The hash is any function of the names.                 *)
(***************************************************************************)
EXTENDS Integers, Sequences

CONSTANTS
    Defaults,       \* config_defaults: a sequence of [key, value]
    Abbreviations,  \* names that are proper prefixes of default keys ...
    Expands,        \* ... of which ones: [Abbreviations -> SUBSET Keys]
    Values,         \* non-empty values of settings
    Hashes,         \* the functions from names to slots considered
    MaxVars,        \* MAX_CONFIG_VARS
    MaxCollisions,  \* MAX_COLLISIONS
    MaxArgs         \* bound: arguments on the command line

Keys == {Defaults[n].key : n \in DOMAIN Defaults}
Names == Keys \cup Abbreviations
Indexes == 0 .. MaxVars - 1

ASSUME ConfigAssumption ==
    /\ MaxVars \in Nat \ {0} /\ MaxCollisions \in 1 .. MaxVars /\ MaxArgs \in Nat
    /\ Defaults \in Seq([key : STRING, value : Values])
    /\ \A m, n \in DOMAIN Defaults : Defaults[m].key = Defaults[n].key => m = n
    /\ "config" \in Keys /\ Abbreviations \cap Keys = {} /\ "" \notin Names
    /\ Expands \in [Abbreviations -> SUBSET Keys]
    /\ Hashes \subseteq [Names -> Indexes]

VARIABLES
    config_table,
    hash,           \* murmur2_32 of a name, modulo MAX_CONFIG_VARS
    stage,          \* the loop that runs: "defaults", "args", "file", "ready"
    turn,           \* its loop variable
    said,           \* ghost: the last value given for exactly this key
    expanded        \* ghost: keys that an abbreviation of theirs has set

cfgVars == <<config_table, hash, stage, turn, said, expanded>>

Zeroed == [key |-> "", value |-> ""]
NotFound == -1

CfgTypeOK ==
    /\ config_table \in [Indexes -> [key : Keys \cup {""}, value : Values \cup {"", "true"}]]
    /\ hash \in [Names -> Indexes]
    /\ stage \in {"defaults", "args", "file", "ready"}
    /\ turn \in 1 .. Len(Defaults) + MaxArgs
    /\ said \in [Keys -> Values \cup {"", "true"}]
    /\ expanded \subseteq Keys

\* config_init begins with a table of zeros.
CfgInit ==
    /\ config_table = [x \in Indexes |-> Zeroed]
    /\ hash \in Hashes
    /\ stage = "defaults"
    /\ turn = 1
    /\ said = [k \in Keys |-> (CHOOSE d \in {Defaults[n] : n \in DOMAIN Defaults} :
                                  d.key = k).value]
    /\ expanded = {}

-----------------------------------------------------------------------------
\* The n-th slot looked at for a name.
Probe(name, n) == (hash[name] + n) % MaxVars

\* The first of the slots looked at that passes the test.
FirstProbe(name, Test(_)) ==
    LET hits == {n \in 0 .. MaxCollisions - 1 : Test(config_table[Probe(name, n)])}
    IN  IF hits = {} THEN NotFound
        ELSE Probe(name, CHOOSE n \in hits : \A o \in hits : n <= o)

\* strncmp(key, name, strlen(name)) == 0
Matches(name, key) ==
    key = name \/ (name \in Abbreviations /\ key \in Expands[name])

\* Mutant: one slot less is looked at.
FindTooShort(name) ==
    LET x == FirstProbe(name, LAMBDA var : Matches(name, var.key))
    IN  IF x = Probe(name, MaxCollisions - 1) THEN NotFound ELSE x

config_var_find(name) == FirstProbe(name, LAMBDA var : Matches(name, var.key))

config_var_insert(key) == FirstProbe(key, LAMBDA var : var.key = "")

config_var_set_value(x, val) ==
    config_table' = [config_table EXCEPT ![x].value = val]

config_get(key) ==
    LET x == config_var_find(key)
    IN  IF x = NotFound THEN "" ELSE config_table[x].value

\* Go on to the next turn of a loop over the defaults, or to the next loop.
NextTurn(next) ==
    IF turn < Len(Defaults) THEN turn' = turn + 1 /\ UNCHANGED stage
                         ELSE turn' = 1 /\ stage' = next

-----------------------------------------------------------------------------
\* The first loop of config_init: a default that finds no slot is left out.
LoadDefault ==
    /\ stage = "defaults"
    /\ LET x == config_var_insert(Defaults[turn].key)
       IN  config_table' = IF x = NotFound THEN config_table
                           ELSE [config_table EXCEPT ![x] = Defaults[turn]]
    /\ NextTurn("args")
    /\ UNCHANGED <<hash, said, expanded>>

\* The second loop of config_init, for the argument name=val; an argument
\* without value says "true", an unknown one is skipped.
ParseArg(name, val) ==
    /\ stage = "args" /\ turn <= MaxArgs
    /\ turn' = turn + 1
    /\ LET x == config_var_find(name)
           v == IF val = "" THEN "true" ELSE val
       IN  IF x = NotFound
           THEN UNCHANGED <<config_table, said, expanded>>
           ELSE /\ config_var_set_value(x, v)
                /\ IF name \in Keys
                   THEN said' = [said EXCEPT ![name] = v] /\ UNCHANGED expanded
                   ELSE /\ expanded' = expanded \cup {config_table[x].key}
                        /\ UNCHANGED said
    /\ UNCHANGED <<hash, stage>>

\* config_load: without a path, or when the file cannot be loaded and run, the
\* settings stay as they are.
config_load(loaded) ==
    /\ stage = "args"
    /\ turn' = 1
    /\ stage' = IF config_get("config") # "" /\ loaded THEN "file" ELSE "ready"
    /\ UNCHANGED <<config_table, hash, said, expanded>>

\* One turn of the loop of config_load_from_path: the file sets the key to val,
\* which may be empty, or has no string for it.
FileVar(isstring, val) ==
    /\ stage = "file"
    /\ LET key == Defaults[turn].key
           x == config_var_find(key)
       IN  IF x = NotFound \/ ~isstring
           THEN UNCHANGED <<config_table, said>>
           ELSE /\ config_var_set_value(x, val)
                /\ said' = [said EXCEPT ![key] = val]
    /\ NextTurn("ready")
    /\ UNCHANGED <<hash, expanded>>

CfgNext ==
    \/ LoadDefault
    \/ \E name \in Names, val \in Values \cup {""} : ParseArg(name, val)
    \/ \E loaded \in BOOLEAN : config_load(loaded)
    \/ \E isstring \in BOOLEAN, val \in Values \cup {""} : FileVar(isstring, val)

-----------------------------------------------------------------------------
Stored(key) == \E x \in Indexes : config_table[x].key = key

\* Whatever the hash makes of the names, config_get finds the key it was asked
\* for, with the value last said for it: by the file, else by the command line,
\* else the default.  Only an abbreviation on the command line may have changed
\* it behind the back of its name.  A key that the table had no slot for is empty.
ConfigHonoured ==
    stage # "defaults" =>
      \A k \in Keys :
        IF Stored(k) THEN config_get(k) = said[k] \/ k \in expanded
                     ELSE config_get(k) = ""
=============================================================================
