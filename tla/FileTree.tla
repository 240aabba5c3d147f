------------------------------ MODULE FileTree ------------------------------
(***************************************************************************)
(* What a file system promises its users: a tree of objects in which a     *)
(* command changes one object, or moves one with what is below it, and a   *)
(* stored tree that only ever catches up with it.  When the power goes the *)
(* stored tree is what is left.  A damaged volume promises nothing.        *)
(***************************************************************************)
EXTENDS Integers, Sequences

VARIABLES tree,    \* objects [path, dir, data]
          stable,  \* the objects a power cut would leave
          damaged

Under(p, path) == Len(path) >= Len(p) /\ SubSeq(path, 1, Len(p)) = p
At(S, p)       == {o \in S : o.path = p}
Parent(p)      == SubSeq(p, 1, Len(p) - 1)
Rooted(S)      == \A o \in S : Len(o.path) = 1 \/ \E d \in S : d.dir /\ d.path = Parent(o.path)
Differ(S, T)   == (S \ T) \cup (T \ S)
PathsOf(S)     == {o.path : o \in S}

\* One object appears, disappears or gets other content; its kind stays.
Change(t, u, p) ==
  /\ PathsOf(Differ(t, u)) \subseteq {p}
  /\ \A o \in At(t, p), n \in At(u, p) : o.dir = n.dir

\* p and what is below it go to q, a name not in use.
Move(t, u, p, q) ==
  /\ At(t, p) # {} /\ At(t, q) = {}
  /\ u = {o \in t : ~Under(p, o.path)} \cup
       {[o EXCEPT !.path = q \o SubSeq(@, Len(p) + 1, Len(@))] : o \in {o \in t : Under(p, o.path)}}

\* Everything not at or below the paths P is stored as it was or as it is.
Persist(t, s, r, P) ==
  \A path \in PathsOf(Differ(s, r)) :
    (\A p \in P : ~Under(p, path)) => At(r, path) = At(t, path)

\* From tree t, stored as s, to tree u, stored as r: a command that changes
\* or moves an object, or the power cut in a command on p.
Step(t, u, s, r) ==
  LET named == PathsOf(Differ(t, u) \cup Differ(s, r)) IN
  /\ Rooted(u)
  /\ \/ t = u /\ Persist(t, s, r, {})
     \/ \E p \in named :
          \/ Change(t, u, p) /\ Persist(t, s, r, {p})
          \/ u = r /\ Persist(t, s, r, {p})
          \/ \E q \in named : Move(t, u, p, q) /\ Persist(t, s, r, {p, q})

Init == Rooted(tree) /\ stable = tree /\ ~damaged
Next ==
  \/ damaged'
  \/ /\ ~damaged
     /\ \E t \in {tree}, u \in {tree'}, s \in {stable}, r \in {stable'} : Step(t, u, s, r)
Spec == Init /\ [][Next]_<<tree, stable, damaged>>
=============================================================================
