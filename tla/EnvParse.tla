---- MODULE EnvParse ----
(***************************************************************************)
(* d_getenv of utils/env_parse.c, which looks up a name in a file of lines *)
(* name=value, one character at a time. It does not reset the number of    *)
(* characters that match at the end of a line, and does not ask for the    *)
(* whole name at a "=".                                                    *)
(***************************************************************************)
EXTENDS Integers, Sequences

CONSTANTS Files,    \* the files, as sequences of characters
          Names,    \* the names that are asked for
          Newline, Equals,  \* the characters with a meaning
          Null      \* no value

(* A file and a name are sequences of characters; a name has at least one. *)
ASSUME FilesAssumption == \A f \in Files \cup Names : f \in Seq({f[i] : i \in DOMAIN f})
ASSUME NamesAssumption ==
    \A n \in Names : n # <<>> /\ \A i \in DOMAIN n : n[i] \notin {Newline, Equals}
ASSUME NewlineAssumption == Newline # Equals

VARIABLES file, name, \* the arguments
          cur,        \* characters read so far
          val,        \* the line may still be the right one
          found,      \* the right line was found
          count,      \* characters of the name that were matched
          offset,     \* where the value begins
          env_len,    \* characters read since then
          returned,   \* d_getenv has returned
          result      \* what it returned

envVars == <<file, name, cur, val, found, count, offset, env_len, returned, result>>

EnvInit ==
    /\ file \in Files
    /\ name \in Names
    /\ cur = 0 /\ count = 0 /\ offset = 0 /\ env_len = 0
    /\ val = TRUE /\ found = FALSE
    /\ returned = FALSE /\ result = Null

-----------------------------------------------------------------------------
(* Definitions that end in an underscore and a word are variants of the    *)
(* one that follows them, with a mistake in it.                            *)

c == file[cur + 1]

(* The value: what is read without its last character, the newline.        *)
Value_all == SubSeq(file, offset + 1, offset + env_len)
Value == SubSeq(file, offset + 1, offset + env_len - 1)

Return ==
    /\ returned' = TRUE
    /\ result' = IF env_len = 0 THEN Null ELSE Value
    /\ UNCHANGED <<file, name, cur, val, found, count, offset, env_len>>

AtEnd == cur = Len(file) \/ (found /\ cur > offset /\ file[cur] = Newline)

Valid_kept == val
Valid == TRUE

NextLine ==
    /\ c = Newline
    /\ val' = Valid
    /\ UNCHANGED <<found, count, offset>>

FindValue ==
    /\ c = Equals /\ ~found /\ val
    /\ found' = TRUE
    /\ offset' = cur + 1
    /\ UNCHANGED <<val, count>>

(* Characters of the value are compared with the name, too.                *)
Compare ==
    /\ c # Newline /\ ~(c = Equals /\ ~found /\ val)
    /\ IF ~val THEN UNCHANGED <<val, count>>
       ELSE IF count < Len(name) /\ c = name[count + 1]
            THEN count' = count + 1 /\ UNCHANGED val
            ELSE val' = FALSE /\ UNCHANGED count
    /\ UNCHANGED <<found, offset>>

Read ==
    /\ cur' = cur + 1
    /\ env_len' = IF found THEN env_len + 1 ELSE env_len
    /\ NextLine \/ FindValue \/ Compare
    /\ UNCHANGED <<file, name, returned, result>>

EnvNext ==
    /\ ~returned
    /\ IF AtEnd THEN Return ELSE Read

EnvSpec == EnvInit /\ [][EnvNext]_envVars

-----------------------------------------------------------------------------
(* The lines of a file, by their first and last character.                 *)
BeginsLine(f, s) == s = 1 \/ f[s - 1] = Newline
Unbroken(f, s, e) == \A i \in s..e : f[i] # Newline
Lines(f) == {l \in (1..Len(f)) \X (0..Len(f)) :
                /\ BeginsLine(f, l[1]) /\ l[2] >= l[1] - 1
                /\ Unbroken(f, l[1], l[2])
                /\ l[2] = Len(f) \/ f[l[2] + 1] = Newline}

(* The line l is n=value.                                                  *)
Binds(f, l, n) ==
    /\ l[1] + Len(n) <= l[2]
    /\ SubSeq(f, l[1], l[1] + Len(n) - 1) = n
    /\ f[l[1] + Len(n)] = Equals
ValueOf(f, l, n) == SubSeq(f, l[1] + Len(n) + 1, l[2])

EnvTypeOK ==
    /\ file \in Files /\ name \in Names
    /\ cur \in 0..Len(file) /\ offset \in 0..cur
    /\ val \in BOOLEAN /\ found \in BOOLEAN /\ returned \in BOOLEAN
    /\ count \in 0..Len(name)
    /\ env_len = IF found THEN cur - offset ELSE 0

(* What is asked for: the value of the first line that binds the name.     *)
Wanted(f, n) == {l \in Lines(f) : Binds(f, l, n)}
FirstWanted(f, n) == CHOOSE l \in Wanted(f, n) : \A k \in Wanted(f, n) : l[1] <= k[1]

(* The file ends with a newline, and no line before the wanted one, or no  *)
(* line at all if there is none, begins with the first character of the    *)
(* name or with "=".                                                       *)
Unlike(f, n) ==
    /\ f # <<>> => f[Len(f)] = Newline
    /\ \A l \in Lines(f) :
          (Wanted(f, n) # {} => l[1] < FirstWanted(f, n)[1]) =>
              l[1] > l[2] \/ f[l[1]] \notin {Head(n), Equals}

(* The result is right for such a file (env_parse.c:33, 36).               *)
RightIfUnlike ==
    returned /\ Unlike(file, name) =>
        result = IF Wanted(file, name) = {} THEN Null
                 ELSE ValueOf(file, FirstWanted(file, name), name)

(* Whatever the file: the result is the value of a line of it, whose name  *)
(* is a piece of the name that was asked for, perhaps none of it; but for  *)
(* the last character, if the line is not ended (env_parse.c:33, 49).      *)
ResultOfOneLine ==
    returned /\ result # Null =>
        \E l \in Lines(file), i \in 1..(Len(name) + 1), n \in 0..Len(name) :
            LET piece == SubSeq(name, i, n)
                last == IF l[2] = Len(file) THEN l[2] - 1 ELSE l[2]
            IN /\ Binds(file, l, piece)
               /\ result = SubSeq(file, l[1] + Len(piece) + 1, last)
====
