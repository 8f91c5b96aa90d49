------------------------------- MODULE UserJson ----------------------------
(***************************************************************************)
(* user_json.c: find_json_path walks down a tree of objects along a path   *)
(* of names, json_ws_send prints what it finds into a buffer through       *)
(* json_putchar and hands the text on.                                     *)
(*                                                                         *)
(* The tree, its printing (jsontree_print_next) and the heap are external: *)
(* a value prints as a text of its own, of any length.  A path is the      *)
(* sequence of what stands between its slashes: "" is <<<<>>>> and "/" is  *)
(* <<<<>>, <<>>>>.                                                         *)
(***************************************************************************)
EXTENDS Naturals, Sequences

CONSTANTS
  Chars,     \* characters of names
  Children,  \* of an object: a sequence of records of name and value
  Root,      \* an object
  Leaves,    \* values that are not objects
  Paths,     \* sequences of names, empty ones where a slash has nothing beside it
  JSONTREE_MAX_DEPTH,  \* the size of json->values and json->index: 10
  JsonSize,  \* the size of the block: jsonSize
  TextLen    \* bound: the longest text printed

Objects == DOMAIN Children
Values == Objects \cup Leaves
NoValue == "none"

ASSUME JsonAssumption ==
  /\ Root \in Objects /\ NoValue \notin Values
  /\ JSONTREE_MAX_DEPTH \in Nat /\ JsonSize \in Nat /\ TextLen \in Nat
  /\ \A o \in Objects : Children[o] \in Seq([name : Seq(Chars), value : Values])
  /\ Paths \subseteq Seq(Seq(Chars)) \ {<<>>}

VARIABLES
  path,      \* the whole path
  rest,      \* what is left of it, start
  v,         \* the value reached, or NoValue
  values,    \* json->values; its length is json->depth + 1
  stage,     \* of json_ws_send; "corrupt" and "crashed" are the end of the model
  text,      \* characters of the printed text still to come
  allocated, \* json_buf is not NULL
  buf,       \* what was put at json_buf; its length is pos
  pbuf,      \* what was last copied to the caller's
  printed    \* history: the whole of the last text

JsonVars == <<path, rest, v, values, stage, text, allocated, buf, pbuf, printed>>

\* os_strncmp over the length of the path's part: a name that goes on matches,
\* and with no length every name does.
Matches(part, name) ==
  Len(part) <= Len(name) /\ SubSeq(name, 1, Len(part)) = part

Found(object, part) ==
  {i \in DOMAIN Children[object] : Matches(part, Children[object][i].name)}

\* Mutant of FirstOf: the last that matches.
FirstOf_Last(s) == CHOOSE i \in s : \A j \in s : j <= i

\* The loop breaks at the first that matches.
FirstOf(s) == CHOOSE i \in s : \A j \in s : i <= j

Top == values[Len(values)]

\* n characters of the text of a value.
TextOf(x, n) == [i \in 1 .. n |-> <<x, i>>]

-----------------------------------------------------------------------------

JsonInit ==
  /\ path = <<>> /\ rest = <<>> /\ v = Root /\ values = <<Root>> /\ stage = "idle"
  /\ text = <<>> /\ allocated = FALSE /\ buf = <<>> /\ pbuf = <<>> /\ printed = <<>>

\* os_malloc may find no block, which nobody looks at; the context is reset and
\* the path looked up,
json_ws_send(p, block) ==
  /\ stage = "idle" /\ stage' = "find" /\ allocated' = block
  /\ path' = p /\ rest' = p /\ v' = Root /\ values' = <<Root>> /\ buf' = <<>>
  /\ UNCHANGED <<text, pbuf, printed>>

\* find_json_path goes on while there is a part and a value.  A part with a
\* slash right behind its start breaks the loop, and its condition ends it
\* before an empty last part: only a path that is empty as a whole is looked up.
Goes == rest # <<>> /\ v # NoValue /\ (Head(rest) = <<>> => path = <<<<>>>>)

\* One part of the path.  What matches is stored one deeper, with no look at
\* the size of values and index.
Descend ==
  /\ stage = "find" /\ Goes /\ rest' = Tail(rest)
  /\ \/ /\ v \in Objects /\ Found(v, Head(rest)) # {}
        /\ v' = Children[v][FirstOf(Found(v, Head(rest)))].value
        /\ values' = Append(values, v')
        /\ stage' = IF Len(values) < JSONTREE_MAX_DEPTH THEN "find" ELSE "corrupt"
     \/ /\ v \in Objects => Found(v, Head(rest)) = {}
        /\ v' = NoValue /\ UNCHANGED <<values, stage>>
  /\ UNCHANGED <<path, text, allocated, buf, pbuf, printed>>

\* Then the value at json.depth is printed, n characters of it, found or not.
PrintText(n) ==
  /\ stage = "find" /\ ~Goes /\ stage' = "print"
  /\ text' = TextOf(Top, n) /\ printed' = text'
  /\ UNCHANGED <<path, rest, v, values, allocated, buf, pbuf>>

\* json_putchar lets one character more than JsonSize pass.
json_putchar ==
  /\ stage = "print" /\ text # <<>> /\ text' = Tail(text)
  /\ buf' = IF allocated /\ Len(buf) <= JsonSize THEN Append(buf, Head(text)) ELSE buf
  /\ UNCHANGED <<path, rest, v, values, stage, allocated, pbuf, printed>>

\* json_buf[pos] is cleared, through NULL or behind the block if that is where
\* it lies, and the caller gets pos characters.
HandOn ==
  /\ stage = "print" /\ text = <<>>
  /\ \/ ~allocated /\ stage' = "crashed" /\ UNCHANGED pbuf
     \/ /\ allocated /\ pbuf' = buf
        /\ stage' = IF Len(buf) < JsonSize THEN "idle" ELSE "corrupt"
  /\ UNCHANGED <<path, rest, v, values, text, allocated, buf, printed>>

JsonNext ==
  \/ \E p \in Paths, block \in BOOLEAN : json_ws_send(p, block)
  \/ Descend \/ \E n \in 0 .. TextLen : PrintText(n)
  \/ json_putchar \/ HandOn

JsonSpec == JsonInit /\ [][JsonNext]_JsonVars

-----------------------------------------------------------------------------

\* The value that path p names, going by whole names, or NoValue.
Named(p) ==
  LET at[n \in 0 .. Len(p)] ==
        IF n = 0 THEN Root
        ELSE LET up == at[n - 1]
                 same == IF up \in Objects
                         THEN {i \in DOMAIN Children[up] : Children[up][i].name = p[n]} ELSE {}
             IN IF same = {} THEN NoValue
                ELSE Children[up][CHOOSE i \in same : \A j \in same : i <= j].value
  IN at[Len(p)]

\* No name on the way has a longer one before it that begins with it.
Unshadowed ==
  \A n \in 1 .. Len(values) - 1 :
    \A i \in Found(values[n], path[n]), j \in DOMAIN Children[values[n]] :
      Children[values[n]][j].name = path[n] => j <= i

\* When json_ws_send returns with all memory but its own as it was, the caller
\* has the whole of a text, never the beginning of one: a text that does not fit
\* is not truncated but written behind the block.  It is the text of the value
\* that the path names, if its parts are not empty and none is shadowed by a
\* longer name that begins like it.
TextOfNamed ==
  stage = "idle" =>
    /\ pbuf = printed
    /\ Unshadowed /\ <<>> \notin {path[i] : i \in DOMAIN path} /\ Named(path) # NoValue
         => printed = TextOf(Named(path), Len(printed))
=============================================================================
