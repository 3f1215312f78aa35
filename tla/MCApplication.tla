--------------------------- MODULE MCApplication ---------------------------
(* Model-checking instances of Application: a byte has two values, an int  *)
(* four bits, the size of a file five bytes, and a packet holds one to     *)
(* three bytes of the file.                                                *)
EXTENDS Application

Plain == [build |-> "app", size |-> 3, there |-> 3, atEnd |-> "eof", frame |-> 6,
          target |-> "opens", room |-> 99, tries |-> 1, noisy |-> FALSE,
          dies |-> FALSE, heap |-> "zero", refuses |-> {}, sigint |-> {}]

(* Files of every size around the limits of the int, and files that        *)
(* shrink or grow after fstat, in packets of every size.                   *)
FileWorlds ==
  {[Plain EXCEPT !.size = s, !.there = t, !.atEnd = e, !.frame = f, !.target = g, !.room = r] :
      s \in {0, 1, 2, 3, 5, 7, 8, 9, 16, 17, 20, 31},
      t \in 0 .. 9, e \in {"eof", "error"}, f \in {5, 6, 7},
      g \in {"opens", "fails", "same"}, r \in {0, 2, 99}}
SomeFileWorlds ==
  {w \in FileWorlds :
     /\ w.there \in (IF w.size > 9 THEN {3, 8} ELSE w.size - 1 .. w.size + 2)
     /\ w.target = "opens" \/ w.room = 99}

(* Short files over a noisy line, to users and computers that give up.     *)
LinkWorlds ==
  {[Plain EXCEPT !.size = s, !.there = s, !.noisy = n, !.build = b, !.tries = k,
                 !.dies = d, !.heap = h, !.refuses = x, !.sigint = i] :
      s \in {0, 2, 4}, n \in BOOLEAN, b \in {"app", "errors"}, k \in {0, 1},
      d \in BOOLEAN, h \in {"zero", "dirty"},
      x \in {{}, {"open"}, {"tcgetattr"}, {"input"}, {"tcsetattr"}},
      i \in {{}, {"tx"}, {"rx"}, {"tx", "rx"}}}
SomeLinkWorlds ==
  {w \in LinkWorlds :
     /\ w.heap = "dirty" \/ w.refuses # {} \/ w.tries = 0 => w.size = 0 /\ w.build = "app"
     /\ w.refuses # {} => w.heap = "zero" /\ w.tries = 1}

(* A file whose size an int shows too small, but which is sent all the     *)
(* same, the counter going round once (Rewound).                           *)
RewoundWorlds == {[Plain EXCEPT !.size = 23, !.there = t, !.frame = 7] : t \in {8, 23}}

AllWorlds == SomeFileWorlds \cup SomeLinkWorlds \cup RewoundWorlds

=============================================================================
