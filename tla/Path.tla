-------------------------------- MODULE Path --------------------------------
(***************************************************************************)
(* Path: a path as the sequence of its characters, its iterators, its      *)
(* decomposition and its lexical operations, in the POSIX build.  A        *)
(* character is a separator, a dot or another one; positions count from 0, *)
(* as in the code.  The iterators walk over one path in both directions;   *)
(* the other operations are functions of paths.                            *)
(***************************************************************************)
EXTENDS Integers, SequencesExt

CONSTANTS MaxLength,   \* bound on the length of a path
          MaxBase      \* bound on the length of a path it is related to

ASSUME PathAssumption == MaxLength \in Nat /\ MaxBase \in Nat

VARIABLES m_pathname,
          itr            \* an iterator over it: m_pos and m_element

pathVars == <<m_pathname, itr>>

Characters == {"/", ".", "a"}

separator == "/"
dot == "."
npos == -1
dot_path == <<dot>>
dot_dot_path == <<dot, dot>>

is_directory_separator(str, pos) == str[pos + 1] = separator
substr(str, pos, count) == SubSeq(str, pos + 1, pos + count)
Positions(str) == 0..(Len(str) - 1)

\* The first separator at or after a position, and the last one up to it, where
\* npos stands for the last position.
find_first_of(str, from) ==
  LET found == {i \in Positions(str) : i >= from /\ is_directory_separator(str, i)}
  IN  IF found = {} THEN npos ELSE Min(found)

find_last_of(str, upto) ==
  LET found == {i \in Positions(str) : (upto = npos \/ i <= upto) /\ is_directory_separator(str, i)}
  IN  IF found = {} THEN npos ELSE Max(found)

\* Where a run of separators that ends before end_pos begins, not looking at the
\* one at stop.
SkipBack(str, end_pos, stop) ==
  Min({i \in 0..end_pos : \A k \in i..(end_pos - 1) : k # stop /\ is_directory_separator(str, k)})

\* Whether a path begins with two separators.
Net(str) == Len(str) >= 2 /\ is_directory_separator(str, 0) /\ is_directory_separator(str, 1)

is_root_separator(str, pos) ==
  LET leftmost == SkipBack(str, pos + 1, npos)
  IN  leftmost = 0 \/ (leftmost >= 3 /\ Net(str) /\ find_first_of(str, 2) = leftmost)

filename_pos(str, end_pos) ==
  IF end_pos = 2 /\ Net(str) THEN 0
  ELSE IF end_pos > 0 /\ is_directory_separator(str, end_pos - 1) THEN end_pos - 1
  ELSE LET pos == find_last_of(str, end_pos - 1)
       IN  IF pos = npos \/ (pos = 1 /\ is_directory_separator(str, 0)) THEN 0 ELSE pos + 1

root_directory_start(path, size) ==
  IF size = 2 /\ Net(path) THEN npos
  ELSE IF size > 3 /\ Net(path) /\ ~is_directory_separator(path, 2)
       THEN LET pos == find_first_of(path, 2) IN IF pos < size THEN pos ELSE npos
  ELSE IF size > 0 /\ is_directory_separator(path, 0) THEN 0 ELSE npos

\* The end of the element that begins at pos.
ElementEnd(str, pos) == LET end == find_first_of(str, pos) IN IF end = npos THEN Len(str) ELSE end

\* Position and size of the first element.
first_element(src) ==
  IF Net(src) /\ (Len(src) = 2 \/ ~is_directory_separator(src, 2)) THEN [pos |-> 0, size |-> ElementEnd(src, 2)]
  ELSE IF src # <<>> /\ is_directory_separator(src, 0)
       THEN [pos |-> Max({i \in Positions(src) : \A k \in 0..i : is_directory_separator(src, k)}), size |-> 1]
  ELSE [pos |-> 0, size |-> ElementEnd(src, 0)]

-----------------------------------------------------------------------------
(* Path::Iterator *)

Iterator(pos, element) == [m_pos |-> pos, m_element |-> element]

begin(path) == LET first == first_element(path)
               IN  Iterator(first.pos, substr(path, first.pos, first.size))
end(path) == Iterator(Len(path), <<>>)

m_path_iterator_increment(path, it) ==
  LET pos == it.m_pos + Len(it.m_element)
      was_net == Len(it.m_element) > 2 /\ Net(it.m_element) /\ ~is_directory_separator(it.m_element, 2)
      next == Min({i \in pos..Len(path) : i = Len(path) \/ ~is_directory_separator(path, i)})
  IN  IF pos = Len(path) THEN end(path)
      ELSE IF is_directory_separator(path, pos) /\ was_net THEN Iterator(pos, <<separator>>)
      ELSE IF /\ is_directory_separator(path, pos) /\ next = Len(path)
              /\ ~is_root_separator(path, next - 1) THEN Iterator(next - 1, dot_path)
      ELSE Iterator(next, substr(path, next, ElementEnd(path, next) - next))

\* Faulty: the root directory is skipped like other separators (rejected by
\* PathLaws).
SkipsRoot(path, it) ==
  LET end_pos == SkipBack(path, it.m_pos, npos)
      pos == filename_pos(path, end_pos)
  IN  IF /\ it.m_pos = Len(path) /\ Len(path) > 1 /\ is_directory_separator(path, it.m_pos - 1)
         /\ ~is_root_separator(path, it.m_pos - 1)
      THEN Iterator(it.m_pos - 1, dot_path)
      ELSE Iterator(pos, substr(path, pos, end_pos - pos))

m_path_iterator_decrement(path, it) ==
  LET end_pos == SkipBack(path, it.m_pos, root_directory_start(path, it.m_pos))
      pos == filename_pos(path, end_pos)
  IN  IF /\ it.m_pos = Len(path) /\ Len(path) > 1 /\ is_directory_separator(path, it.m_pos - 1)
         /\ ~is_root_separator(path, it.m_pos - 1)
      THEN Iterator(it.m_pos - 1, dot_path)
      ELSE Iterator(pos, substr(path, pos, end_pos - pos))

\* All iterators of a path, from begin() to end().
RECURSIVE WalkFrom(_, _)
WalkFrom(path, it) == IF it.m_pos = Len(path) THEN <<it>>
                      ELSE <<it>> \o WalkFrom(path, m_path_iterator_increment(path, it))
Walk(path) == WalkFrom(path, begin(path))
Elements(path) == LET walk == Walk(path) IN [i \in 1..(Len(walk) - 1) |-> walk[i].m_element]

\* operator==: compare looks at the elements only.
Same(p, q) == Elements(p) = Elements(q)

-----------------------------------------------------------------------------
(* Modifiers and decomposition *)

m_append_separator_if_needed(path) ==
  IF path # <<>> /\ Last(path) # separator THEN Append(path, separator) ELSE path

\* operator/= of a Path, and of a C string, which does not look whether it is empty.
append(path, p) == IF p = <<>> THEN path
                   ELSE IF p[1] = separator THEN path \o p
                   ELSE m_append_separator_if_needed(path) \o p
append_c_str(path, ptr) == IF ptr # <<>> /\ ptr[1] = separator THEN path \o ptr
                           ELSE m_append_separator_if_needed(path) \o ptr

\* append of a range: a separator that is put before another one is erased again.
m_erase_redundant_separator(path, sep_pos) ==
  IF path[sep_pos + 2] = separator THEN RemoveAt(path, sep_pos + 1) ELSE path
append_range(path, seq) ==
  LET separated == m_append_separator_if_needed(path)
  IN  IF seq = <<>> THEN path
      ELSE IF separated = path THEN path \o seq
      ELSE m_erase_redundant_separator(separated \o seq, Len(path))

m_parent_path_end(path) ==
  LET start == filename_pos(path, Len(path))
      filename_was_separator == path # <<>> /\ is_directory_separator(path, start)
      root_dir_pos == root_directory_start(path, start)
      end_pos == SkipBack(path, start, root_dir_pos)
  IN  IF end_pos = 1 /\ root_dir_pos = 0 /\ filename_was_separator THEN npos ELSE end_pos

parent_path(path) == LET end_pos == m_parent_path_end(path)
                     IN  IF end_pos = npos THEN <<>> ELSE substr(path, 0, end_pos)

\* Erasing from npos throws an exception.
remove_filename_throws(path) == m_parent_path_end(path) = npos
remove_filename(path) == substr(path, 0, m_parent_path_end(path))

remove_trailing_separator(path) ==
  IF path # <<>> /\ Last(path) = separator THEN Front(path) ELSE path

filename(path) ==
  LET pos == filename_pos(path, Len(path))
  IN  IF pos > 0 /\ is_directory_separator(path, pos) /\ ~is_root_separator(path, pos) THEN dot_path
      ELSE substr(path, pos, Len(path) - pos)

\* Where the extension of a file name begins.
ExtensionPos(name) ==
  LET dots == {i \in Positions(name) : name[i + 1] = dot}
  IN  IF dots = {} \/ name \in {dot_path, dot_dot_path} THEN Len(name) ELSE Max(dots)

stem(path) == LET name == filename(path) IN substr(name, 0, ExtensionPos(name))
extension(path) == LET name == filename(path)
                   IN  substr(name, ExtensionPos(name), Len(name) - ExtensionPos(name))

replace_extension(path, new_extension) ==
  LET bare == substr(path, 0, Len(path) - Len(extension(path)))
  IN  IF new_extension = <<>> \/ new_extension[1] = dot THEN bare \o new_extension
      ELSE Append(bare, dot) \o new_extension

filename_is_dot_dot(path) == /\ Len(path) >= 2 /\ substr(path, Len(path) - 2, 2) = dot_dot_path
                             /\ Len(path) > 2 => is_directory_separator(path, Len(path) - 3)

root_name(path) == LET first == begin(path).m_element IN IF Net(first) THEN first ELSE <<>>
root_directory(path) == IF root_directory_start(path, Len(path)) = npos THEN <<>> ELSE <<separator>>
root_path(path) == root_name(path) \o root_directory(path)
relative_path(path) ==
  LET walk == Walk(path)
      rest == {i \in DOMAIN walk : walk[i].m_element = <<>> \/ walk[i].m_element[1] # separator}
      pos == walk[Min(rest)].m_pos
  IN  substr(path, pos, Len(path) - pos)

-----------------------------------------------------------------------------
(* Lexical operations *)

lexically_relative(path, base) ==
  LET p == Elements(path)
      b == Elements(base)
      common == Max({n \in 0..Min({Len(p), Len(b)}) : \A i \in 1..n : p[i] = b[i]})
      up == [i \in 1..(Len(b) - common) |-> dot_dot_path]
  IN  IF common = 0 THEN <<>>
      ELSE IF common = Len(p) /\ common = Len(b) THEN dot_path
      ELSE FoldLeft(append, <<>>, up \o SubSeq(p, common + 1, Len(p)))

\* Whether a ".." takes away the last file name of what is built so far.
TakenByDotDot(temp) ==
  LET lf == filename(temp)
  IN  /\ temp # <<>> /\ lf # <<>>
      /\ Len(lf) = 1 => lf[1] \notin {dot, separator}
      /\ Len(lf) = 2 => lf[1] # dot /\ lf[2] # dot

\* The loop over the elements, from the i-th on, with what is built so far.
RECURSIVE NormalFrom(_, _, _)
NormalFrom(elements, i, temp) ==
  IF i > Len(elements) THEN temp
  ELSE NormalFrom(elements, i + 1,
         IF elements[i] = dot_path /\ i \notin {1, Len(elements)} THEN temp
         ELSE IF elements[i] = dot_dot_path /\ TakenByDotDot(temp)
              THEN IF remove_filename(temp) = <<>> /\ i + 1 = Len(elements) /\ Last(elements) = dot_path
                   THEN dot_path ELSE remove_filename(temp)
         ELSE append(temp, elements[i]))

lexically_normal(path) ==
  LET temp == NormalFrom(Elements(path), 1, <<>>)
  IN  IF path # <<>> /\ temp = <<>> THEN dot_path ELSE temp

-----------------------------------------------------------------------------

PathInit == m_pathname \in SeqOf(Characters, MaxLength) /\ itr = begin(m_pathname)

increment == /\ itr.m_pos < Len(m_pathname)
             /\ itr' = m_path_iterator_increment(m_pathname, itr)
             /\ UNCHANGED m_pathname

\* The code asserts that the position is not 0.
decrement == /\ itr.m_pos # begin(m_pathname).m_pos /\ itr.m_pos > 0
             /\ itr' = m_path_iterator_decrement(m_pathname, itr)
             /\ UNCHANGED m_pathname

PathStep == increment \/ decrement

PathSpec == PathInit /\ [][PathStep]_pathVars

-----------------------------------------------------------------------------
(* Properties *)

\* A value the laws use more than once is bound as the member of a singleton, so that
\* TLC computes it once.

\* The paths the laws are about: those that do not begin with two separators, and
\* network paths with a name of two or more characters and a single separator after
\* it.  The roots of the others are not taken apart and put together consistently.
Regular(path) ==
  Net(path) => /\ Len(path) > 3 /\ ~is_directory_separator(path, 2) /\ ~is_directory_separator(path, 3)
               /\ \A i \in 4..(Len(path) - 1) : find_first_of(path, 2) = i - 1 => ~is_directory_separator(path, i)

\* Where a path of these elements leads: its root, how often it goes up from there, and the names.
Place(elements) ==
  LET Go(place, e) ==
        IF e = dot_path THEN place
        ELSE IF e = dot_dot_path /\ place.names # <<>> THEN [place EXCEPT !.names = Front(@)]
        ELSE IF e = dot_dot_path THEN [place EXCEPT !.up = @ + 1]
        ELSE IF e[1] = separator THEN [place EXCEPT !.root = Append(@, e)]
        ELSE [place EXCEPT !.names = Append(@, e)]
  IN  FoldLeft(Go, [root |-> <<>>, up |-> 0, names |-> <<>>], elements)

\* A name of two characters, one a dot, which lexically_normal takes for "..".
LikeDotDot(name) == Len(name) = 2 /\ dot \in Range(name)

\* Normal form: a "." only as the first or last element, and no ".." after a name.
InNormalForm(elements) ==
  /\ \A i \in 2..(Len(elements) - 1) : elements[i] # dot_path
  /\ \A i \in 2..Len(elements) : elements[i] = dot_dot_path =>
       LET before == elements[i - 1] IN before = dot_path \/ before[1] = separator \/ LikeDotDot(before)

\* The parts a path is taken apart into are its elements: parent_path() and
\* filename(), root_path() and relative_path(), stem() and extension().  And the
\* modifiers change just those parts: remove_filename() leaves the parent path,
\* replace_extension() the parent path and the stem of a name, and
\* remove_trailing_separator() the place of a path below its root.
Decomposes(path) ==
  \A elements \in {Elements(path)}, parent \in {parent_path(path)}, name \in {filename(path)},
     root \in {root_path(path)}, relative \in {relative_path(path)} :
    /\ path # <<>> => elements = Append(Elements(parent), name)
    /\ elements = Elements(root) \o Elements(relative)
    /\ stem(path) \o extension(path) = name
    /\ ~remove_filename_throws(path) /\ remove_filename(path) = parent
    /\ Last(path) # separator /\ name \notin {dot_path, dot_dot_path} =>
         \A replaced \in {replace_extension(path, <<"a">>)} :
           /\ parent_path(replaced) = parent /\ stem(replaced) = stem(path)
           /\ extension(replaced) = <<dot, "a">>
    /\ relative # <<>> => \A bare \in {remove_trailing_separator(path)} :
                            \A left \in {Elements(bare)} : Place(left) = Place(elements)
    /\ ~Net(path) => (filename_is_dot_dot(path) <=> name = dot_dot_path)

\* lexically_normal() leads to the same place and is in normal form.
Normalizes(path) ==
  \A elements \in {Elements(path)}, normal \in {lexically_normal(path)} :
    /\ lexically_normal(normal) = normal
    /\ \A e \in {Elements(normal)} : Place(e) = Place(elements) /\ InNormalForm(e)

\* Appended to its base, lexically_relative() leads to the same place, if the base
\* only goes down.
Relates(path, base) ==
  \A p \in {Elements(path)}, b \in {Elements(base)}, relative \in {lexically_relative(path, base)} :
    ~Net(path) /\ relative # <<>> /\ Range(b) \cap {dot_path, dot_dot_path} = {} =>
      \A appended \in {append(base, relative)} : \A e \in {Elements(appended)} : Place(e) = Place(p)

\* Appending a path, a range and a C string that is not empty are the same.
Appends(path, p) == /\ append_range(path, p) = append(path, p)
                    /\ p # <<>> => append_c_str(path, p) = append(path, p)

\* An iterator moved forwards and backwards in any order is always one of the
\* iterators a walk from begin() meets, and the functions of Path fit together:
\* the parts of a path, its normal form, its relation to others and the ways of
\* appending.
PathLaws ==
  /\ Regular(m_pathname) => itr \in Range(Walk(m_pathname))
  /\ m_pathname # <<>> /\ itr = begin(m_pathname) =>
       /\ Regular(m_pathname) => Decomposes(m_pathname)
       /\ Normalizes(m_pathname)
       /\ \A p \in SeqOf(Characters, MaxBase) : Relates(m_pathname, p) /\ Appends(m_pathname, p)

\* An iterator that is not begin() may be decremented: its position is not 0, as
\* m_path_iterator_decrement asserts.
BeginsAtStart == itr.m_pos # begin(m_pathname).m_pos => itr.m_pos > 0
=============================================================================
