---------------------------- MODULE StringStorage ----------------------------
(***************************************************************************)
(* The storages of c_allocator_string.cpp, for ASCII and for UTF-8, which  *)
(* differ in the conversion only: v_put writes the converted string to the *)
(* cursor and answers with the item of an equal string, if the tree of     *)
(* items has one, or with a new item for the string just written.          *)
(*                                                                         *)
(* The conversions and the tree are external.  Strings are the bytes that  *)
(* the conversion yields.                                                  *)
(***************************************************************************)
EXTENDS Integers, Sequences

CONSTANTS
  Bytes,            \* what strings are made of
  MaxLength,        \* bound: the longest string the client puts
  Room,             \* bytes from m_str_memory to m_str_end
  m_max             \* the places for items, and for nodes of the tree

NUL == "NUL"        \* a byte nothing was written to

Strings == UNION {[1..n -> Bytes] : n \in 0..MaxLength}

VARIABLES
  memory,           \* the bytes of the strings
  m_str_cursor,     \* as a distance from m_str_memory
  m_items,          \* str_t of each item, without the hash
  put               \* history: the string each item was made for

vars == <<memory, m_str_cursor, m_items, put>>

m_size == Len(m_items)

-----------------------------------------------------------------------------

\* setup
Init ==
  /\ memory = [a \in 0..Room - 1 |-> NUL]
  /\ m_str_cursor = 0
  /\ m_items = << >> /\ put = << >>

\* What a conversion does with a string that does not fit is external: the client
\* puts what fits.
Fits(s) == m_str_cursor + Len(s) <= Room

\* The conversion writes to the cursor, before the tree is asked.
Written(s) ==
  [a \in DOMAIN memory |->
     IF a - m_str_cursor \in 0..Len(s) - 1 THEN s[a - m_str_cursor + 1] ELSE memory[a]]

\* find passes this for the user data that s_compare_str_to_node takes for a
\* members_t.  A members_t starts behind the table of virtual functions, so that the
\* items compared are read from m_str_end on, outside of the storage: find may answer
\* with any item, or with none.
MayBeFound == 1..m_size

\* v_put, when find answers with an item.
PutFound(s) ==
  /\ Fits(s)
  /\ MayBeFound # {}
  /\ memory' = Written(s)
  /\ UNCHANGED <<m_str_cursor, m_items, put>>

NextCursor == m_str_cursor + 1

\* v_put, when find answers with none; insert makes the same comparisons again and
\* answers with the node it made.  Nothing compares m_size to m_max: the client must
\* not put more, the second node that insert works with included.
PutNew(s) ==
  /\ Fits(s)
  /\ m_size + 1 < m_max
  /\ memory' = Written(s)
  /\ m_items' = Append(m_items, [m_str |-> m_str_cursor, m_len |-> Len(s)])
  /\ put' = Append(put, s)
  /\ m_str_cursor' = NextCursor

Next ==
  \/ \E s \in Strings : PutFound(s)
  \/ \E s \in Strings : PutNew(s)

Spec == Init /\ [][Next]_vars

-----------------------------------------------------------------------------
(* Properties                                                              *)

Content(item) == [k \in 1..item.m_len |-> memory[item.m_str + k - 1]]

\* "This allocator is designed to be used for storing unique, ASCII or UTF-8,
\* strings" (src/README.md:57): an item has the string it was made for, whatever was put
\* after it.
StringsKept == \A k \in 1..m_size : Content(m_items[k]) = put[k]

=============================================================================
