----------------------------- MODULE Sanitizer -----------------------------
(***************************************************************************)
(* The allowlist tree of sanitizer.py and what it lets through.  A field   *)
(* of an allowlist is a path of one or two names.  A document maps names   *)
(* to values; a value is plain (a number, a text, a list), null, or an     *)
(* object with a set of sub-fields.                                        *)
(***************************************************************************)
EXTENDS Naturals, Sequences, SequencesExt

Plain == [kind |-> "plain", subs |-> {}]
Null == [kind |-> "null", subs |-> {}]
Object(subs) == [kind |-> "object", subs |-> subs]

Open == [open |-> TRUE, subs |-> {}]

\* Mutant: a nested field opens the whole of what it is in.
AddPathOpen(tree, path) ==
    [top \in DOMAIN tree \union {path[1]} |->
        IF top = path[1] THEN Open ELSE tree[top]]
AddPath(tree, path) ==
    LET top == path[1]
        node == IF top \in DOMAIN tree THEN tree[top]
                ELSE IF Len(path) = 1 THEN Open
                ELSE [open |-> FALSE, subs |-> {}]
        grown == IF Len(path) = 1 \/ node.open THEN node
                 ELSE [node EXCEPT !.subs = @ \union {path[2]}]
    IN  [t \in DOMAIN tree \union {top} |->
            IF t = top THEN grown ELSE tree[t]]

\* _build_allowlist_tree
Tree(fields) ==
    LET tree[i \in 0..Len(fields)] ==
            IF i = 0 THEN <<>> ELSE AddPath(tree[i - 1], fields[i])
    IN  tree[Len(fields)]

\* _sanitize_value: of an object only the listed part; anything else where
\* an object was expected becomes null.
SanitizeValue(value, node) ==
    IF node.open THEN value
    ELSE IF value.kind = "object" THEN Object(value.subs \intersect node.subs)
    ELSE Null

\* sanitize_document; "_id" needs no listing.
Sanitize(fields, doc) ==
    LET tree == Tree(fields)
    IN  [f \in DOMAIN doc \intersect (DOMAIN tree \union {"_id"}) |->
            IF f \in DOMAIN tree THEN SanitizeValue(doc[f], tree[f])
            ELSE doc[f]]

\* get_projection, and what MongoDB returns for it.
Projection(fields) == ToSet(fields)

Project(fields, doc) ==
    LET listed == Projection(fields)
        Subs(f) == {p[2] : p \in {q \in listed : Len(q) = 2 /\ q[1] = f}}
        Whole(f) == f = "_id" \/ <<f>> \in listed
        kept == {f \in DOMAIN doc :
                    Whole(f) \/ (Subs(f) # {} /\ doc[f].kind = "object")}
    IN  [f \in kept |-> IF Whole(f) THEN doc[f]
                        ELSE Object(doc[f].subs \intersect Subs(f))]
=============================================================================
