------------------------------- MODULE Redaction -------------------------------
(***************************************************************************)
(* redactObject of internal/mcp/redact.go: get_resource replaces credential *)
(* values of an object, in place, before it returns it.  The walk visits    *)
(* the fields of a map in any order (Go's range over a map), so one field   *)
(* may be rewritten before another that decides about it is looked at.      *)
(*                                                                          *)
(* An object is a function on 1..n.  Each value has its parent (0 is the    *)
(* object itself, a map; a parent comes before its fields), its key and its *)
(* val.  Keys: those the code names, "password" for any sensitive one,      *)
(* "secretName" for any of referenceKeys, "image" for any other and "item"  *)
(* for an element of a list.  Values: "map" and "list"; the strings "empty", *)
(* "plain", "credName" (a sensitive word such as DB_PASSWORD), "flag" (a    *)
(* sensitive flag with its value), "url" (with a password), "copy" (JSON of *)
(* an object with credentials); "number"; "nil"; and what the walk writes.  *)
(***************************************************************************)
EXTENDS Integers, FiniteSets

VARIABLES
    object,    \* the object
    todo,      \* the values still to be looked at
    count      \* how many the walk has replaced

redVars == <<object, todo, count>>

Keys == {"name", "value", "termination", "key", "password", "secretName", "image",
         "metadata", "annotations", "managedFields", "lastApplied", "item"}

Strings == {"empty", "plain", "credName", "flag", "url", "copy",
            "redacted", "flagRedacted", "urlRedacted"}

Vals == Strings \cup {"map", "list", "number", "nil"}
Written == {"redacted", "flagRedacted", "urlRedacted"}

RedTypeOK ==
    /\ DOMAIN object \subseteq Nat \ {0}
    /\ \A i \in DOMAIN object : object[i].key \in Keys /\ object[i].val \in Vals
    /\ todo \subseteq DOMAIN object
    /\ count \in Nat

Children(o, i) == { j \in DOMAIN o : o[j].parent = i }

(* A field of the map m with a key, as a set of at most one value.           *)
Field(o, m, key) == { j \in Children(o, m) : o[j].key = key }

(* sensitiveKey, of a key and of a string                                    *)
SensitiveKey(key) == key = "password"
SensitiveName(val) == val \in {"credName", "flag"}

(* redactString: what a string on its own becomes.                           *)
RedactString(val) ==
    CASE val = "flag" -> "flagRedacted" [] val = "url" -> "urlRedacted" [] OTHER -> val

(* EnvVar shape: any string under "value", the empty one too, where "name"   *)
(* is sensitive.  Route TLS shape: a non-empty "key" next to "termination".  *)
EnvValues(o, m) ==
    { j \in Field(o, m, "value") :
        o[j].val \in Strings /\ \E i \in Field(o, m, "name") : SensitiveName(o[i].val) }

TLSKeys(o, m) ==
    { j \in Field(o, m, "key") :
        o[j].val \in Strings \ {"empty"} /\ Field(o, m, "termination") # {} }

(* What redactMap does before it looks at the fields of m.                   *)
Enter(o, m) == [ masked |-> EnvValues(o, m) \cup TLSKeys(o, m), fields |-> Children(o, m) ]

Masked(o, S) == [i \in DOMAIN o |-> IF i \in S THEN [o[i] EXCEPT !.val = "redacted"] ELSE o[i]]

(* Faulty variant: only managedFields is removed.                            *)
FaultyNoise(o) == UNION { Field(o, m, "managedFields") : m \in Field(o, 0, "metadata") }

(* handleGetResource removes metadata.managedFields and, of the annotations, *)
(* kubectl's copy of the last applied object.                                *)
Noise(o) ==
    UNION { Field(o, m, "managedFields") \cup
            UNION { Field(o, a, "lastApplied") : a \in Field(o, m, "annotations") } :
            m \in Field(o, 0, "metadata") }

(* An object the API server returns: a tree, its lists have items and its    *)
(* maps have none, and nothing is written yet.                               *)
IsObject(o) ==
    /\ IsFiniteSet(DOMAIN o) /\ DOMAIN o \subseteq Nat \ {0}
    /\ \A i \in DOMAIN o :
          LET p == o[i].parent
          IN  /\ o[i] \in [parent : {0} \cup DOMAIN o, key : Keys, val : Vals \ Written]
              /\ p < i /\ (p # 0 => o[p].val \in {"map", "list"})
              /\ o[i].key = "item" <=> p # 0 /\ o[p].val = "list"
              /\ o[i].val = "copy" => i \in Noise(o)

(* They go with all that is below them: the smallest such set of values.     *)
Gone(o) ==
    { i \in DOMAIN o : \A S \in SUBSET DOMAIN o :
        Noise(o) \subseteq S /\ (\A j \in DOMAIN o : o[j].parent \in S => j \in S) => i \in S }

Stripped(o) == [i \in DOMAIN o \ Gone(o) |-> o[i]]

(* redactObject(o)                                                           *)
Redact(o) ==
    LET e == Enter(o, 0)
    IN  /\ object' = Masked(o, e.masked)
        /\ todo' = e.fields
        /\ count' = Cardinality(e.masked)

(* The walk enters a map or a list; a list has no shape of its own.          *)
VisitContainer(i) ==
    /\ i \in todo /\ object[i].val \in {"map", "list"}
    /\ LET e == IF object[i].val = "map" THEN Enter(object, i)
                ELSE [masked |-> {}, fields |-> Children(object, i)]
       IN  /\ object' = Masked(object, e.masked)
           /\ todo' = (todo \ {i}) \cup e.fields
           /\ count' = count + Cardinality(e.masked)

(* Faulty variant: a sensitive value that is not a string is left alone.     *)
FaultyScalar(key, val) ==
    IF SensitiveKey(key) /\ val \in Strings \ {"empty"} THEN "redacted"
    ELSE RedactString(val)

(* A scalar behind a sensitive key is replaced unless it is empty; any other *)
(* string is searched for flags and URLs.                                    *)
Scalar(key, val) ==
    IF SensitiveKey(key) THEN IF val \in {"empty", "nil"} THEN val ELSE "redacted"
    ELSE RedactString(val)

VisitScalar(i) ==
    /\ i \in todo /\ object[i].val \notin {"map", "list"}
    /\ LET new == Scalar(object[i].key, object[i].val)
       IN  /\ object' = [object EXCEPT ![i].val = new]
           /\ count' = IF new # object[i].val THEN count + 1 ELSE count
    /\ todo' = todo \ {i}

Visit == \E i \in todo : VisitContainer(i) \/ VisitScalar(i)

--------------------------------------------------------------------------------
(* What has to be hidden, decided on the object as it was read.              *)

IsCredential(o, i) ==
    LET v == o[i].val
        key == o[i].key
        siblings == { o[j] : j \in Children(o, o[i].parent) }
        InMap == o[i].parent = 0 \/ o[o[i].parent].val = "map"
    IN  /\ v \notin {"map", "list", "nil", "empty"}
        /\ \/ InMap /\ key = "password"
           \/ v \in {"flag", "url"}
           \/ InMap /\ key = "value" /\ v \in Strings
                /\ \E s \in siblings : s.key = "name" /\ s.val \in {"credName", "flag"}
           \/ InMap /\ key = "key" /\ v \in Strings
                /\ \E s \in siblings : s.key = "termination"

(* Values the walk hides although they hold nothing: an environment variable *)
(* with a sensitive name that is set to "".                                  *)
IsEmptyEnv(o, i) ==
    /\ o[i].val = "empty" /\ o[i].key = "value"
    /\ \E j \in Field(o, o[i].parent, "name") : o[j].val \in {"credName", "flag"}

================================================================================
