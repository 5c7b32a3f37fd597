--------------------------- MODULE IntrusiveList ---------------------------
(***************************************************************************)
(* ft_list.h: list_heads linked into rings, each through a head.  A memory r *)
(* gives the next and prev of every list_head, NULL where there is none.    *)
(***************************************************************************)
CONSTANT NULL

NoLinks(heads) == [next |-> [h \in heads |-> NULL], prev |-> [h \in heads |-> NULL]]

init_list_head(r, h) == [r EXCEPT !.next[h] = h, !.prev[h] = h]

(* __list_add *)
list_add_between(r, n, prev, next) ==
  [r EXCEPT !.prev[next] = n, !.next[n] = next, !.prev[n] = prev, !.next[prev] = n]

list_add_tail(r, n, h) == list_add_between(r, n, r.prev[h], h)

list_del_forward(r, n) ==                     \* mutant: the next node keeps its prev
  [r EXCEPT !.next[r.prev[n]] = r.next[n], !.next[n] = NULL, !.prev[n] = NULL]

list_del(r, n) ==
  [r EXCEPT !.prev[r.next[n]] = r.prev[n], !.next[r.prev[n]] = r.next[n],
            !.next[n] = NULL, !.prev[n] = NULL]

list_first_entry(r, h) == r.next[h]
=============================================================================
