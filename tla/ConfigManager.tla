----------------------------- MODULE ConfigManager -----------------------------
(***************************************************************************)
(* ConfigManager (src/infra): the configuration that was loaded last, from *)
(* a file or a string, and what the getters find in it.                    *)
(*                                                                         *)
(* YAML is external: a node is null, a scalar with the types it converts   *)
(* to, a sequence of nodes or a map of keys to nodes.  A key of the        *)
(* getters is the sequence of what stands between its dots, so that the    *)
(* empty key is one empty token and "a." ends with one.                    *)
(***************************************************************************)
EXTENDS Integers, Sequences

CONSTANTS
    Paths,   \* the files that may be loaded
    Trees    \* what a file or a string may parse to

VARIABLES
    files,        \* what is in each file: a tree, or NoTree
    config_,      \* the root node
    configPath_,  \* the file that reload loads, or NoPath
    result        \* what the last load returned

vars == <<files, config_, configPath_, result>>

NoPath == "no path"

Null == [type |-> "null"]
Scalar(as) == [type |-> "scalar", as |-> as]
Items(items) == [type |-> "sequence", items |-> items]
Entries(entries) == [type |-> "map", entries |-> entries]

\* A file that is missing or is not YAML; and a key that is no text.
NoTree == [type |-> "none"]
NotText == "not a text"

Init ==
    /\ files \in [Paths -> Trees \cup {NoTree}]
    /\ config_ = Null
    /\ configPath_ = NoPath
    /\ result = FALSE

-----------------------------------------------------------------------------
\* loadFromFile: the path is kept even where the file does not load, and the
\* configuration is where it does not.
LoadFromFile(path) ==
    /\ configPath_' = path
    /\ result' = (files[path] # NoTree)
    /\ config_' = IF files[path] # NoTree THEN files[path] ELSE config_
    /\ UNCHANGED files

\* loadFromString: the keys of the root are logged when it is in place, and
\* one that is no text makes the load fail.
LoadFromString(tree) ==
    /\ config_' = IF tree # NoTree THEN tree ELSE config_
    /\ result' = /\ tree # NoTree
                 /\ tree.type = "map" => NotText \notin DOMAIN tree.entries
    /\ UNCHANGED <<files, configPath_>>

\* reload, which returns nothing.
Reload ==
    /\ configPath_ # NoPath
    /\ configPath_' = configPath_
    /\ config_' = IF files[configPath_] # NoTree THEN files[configPath_] ELSE config_
    /\ UNCHANGED <<files, result>>

\* Somebody edits a file, or removes it.
Edit(path) ==
    /\ files' \in {[files EXCEPT ![path] = tree] : tree \in Trees \cup {NoTree}}
    /\ UNCHANGED <<config_, configPath_, result>>

Next ==
    \/ \E path \in Paths : LoadFromFile(path) \/ Edit(path)
    \/ \E tree \in Trees \cup {NoTree} : LoadFromString(tree)
    \/ Reload

Spec == Init /\ [][Next]_vars

-----------------------------------------------------------------------------
\* getNode: the loop ends at an empty token.  Behind the last one getline
\* fails and leaves the token as it is, and the loop goes round with it again.
RECURSIVE Descend(_, _)
Descend(node, tokens) ==
    IF Head(tokens) = "" THEN node
    ELSE IF node.type # "map" THEN Null
    ELSE IF Head(tokens) \notin DOMAIN node.entries THEN Null
    ELSE Descend(node.entries[Head(tokens)],
                 IF Len(tokens) > 1 THEN Tail(tokens) ELSE tokens)

GetNode(key) == Descend(config_, key)

Has(key) == GetNode(key) # Null

\* getString, getInt, getDouble and getBool throw, or return the scalar.
Throws == [type |-> "throws"]

Get(key, type) ==
    LET node == GetNode(key)
    IN  IF node.type = "scalar" /\ type \in node.as THEN node ELSE Throws

\* With a default, what they throw is caught; and get<T>, which asks has
\* first, lets pass what is thrown by a value of another type.
GetOr(key, type, default) ==
    IF Get(key, type) # Throws THEN Get(key, type) ELSE default

GetIfThere(key, type, default) == IF Has(key) THEN Get(key, type) ELSE default

\* The two forms of getStringVector, of which the first throws nothing, so
\* that the default of the second is never returned.
GetStringVector(key) ==
    LET node == GetNode(key)
    IN  IF /\ node.type = "sequence"
           /\ \A i \in DOMAIN node.items :
                node.items[i].type = "scalar" /\ "string" \in node.items[i].as
        THEN node.items ELSE <<>>

GetStringVectorOr(key, default) == GetStringVector(key)

-----------------------------------------------------------------------------
\* The keys of the scalars in a tree, as one writes them down.
RECURSIVE ScalarKeys(_)
ScalarKeys(node) ==
    IF node.type = "map"
    THEN UNION {IF node.entries[k].type = "scalar" THEN {<<k>>}
                ELSE {<<k>> \o key : key \in ScalarKeys(node.entries[k])} :
                  k \in (DOMAIN node.entries) \ {NotText}}
    ELSE {}

\* EXPECT_TRUE(config_manager_->has("exchange.binance.api_key"))
\* (tests/unit/config_manager_test.cpp:98), of a file that has that key: what
\* a configuration that was loaded has can be found in it by its key, and
\* read as a string.
ScalarsAreFound ==
    \A key \in ScalarKeys(config_) : Has(key) /\ Get(key, "string") # Throws
=============================================================================
