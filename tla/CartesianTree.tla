--------------------------- MODULE CartesianTree ---------------------------
(***************************************************************************)
(* cartesian_tree: the positions of range minima from a sequence of        *)
(* parentheses, without the values.  The list is read once, with a stack;  *)
(* the parentheses are written in reverse order.                           *)
(***************************************************************************)
EXTENDS BalancedParens, SequencesExt

\* push_back(): values greater than the new one leave the stack.
PushBack(b, val) ==
    LET kept == Max({0} \cup {i \in DOMAIN b.stack : ~(val < b.stack[i])})
        popped == [i \in 1 .. Len(b.stack) - kept |-> 1]
    IN  [bits |-> b.bits \o <<0>> \o popped,
         stack |-> Append(SubSeq(b.stack, 1, kept), val)]

\* finalize(): the super-root, and what the stack still holds.
Finalized(b) ==
    Reverse(b.bits \o <<0>> \o [i \in DOMAIN b.stack |-> 1] \o <<1>>)

\* build()
TreeOf(values) ==
    LET After[i \in 0 .. Len(values)] ==
            IF i = 0 THEN [bits |-> <<>>, stack |-> <<>>] ELSE PushBack(After[i - 1], values[i])
    IN  Parens(Finalized(After[Len(values)]))

NumValues(tree) == (tree.size \div 2) - 1

\* Regression the checks must catch (never used by a specification): the last
\* position of the range is not compared with the others.
RmqBeforeLast(tree, a, b) ==
    LET n == NumValues(tree)
        w == ExcessRmq(tree, Select0(tree, n - b), Select0(tree, n - a))
    IN  IF a = b THEN a ELSE n - Rank0(tree, w)

\* rmq(): the position of the minimum in a .. b, both ends included.
Rmq(tree, a, b) ==
    LET n == NumValues(tree)
        t == Select0(tree, n - b - 1)
        excT == t - 2 * (n - b - 1)
        w == ExcessRmq(tree, Select0(tree, n - b), Select0(tree, n - a))
        excW == Excess(tree, w)
        rank0W == (w - excW) \div 2
    IN  IF a = b THEN a
        ELSE IF excW >= excT - 1 THEN b
        ELSE n - rank0W

-----------------------------------------------------------------------------

\* What a tree promises of the list it is built of: the minimum of a range is
\* the leftmost one, "in ties the leftmost element wins" (line 30), and so is
\* the least excess of any range of its parentheses.
FindsLeftmost(values) ==
    LET tree == TreeOf(values)
    IN  /\ \A b \in 0 .. Len(values) - 1 : \A a \in 0 .. b :
               \A p \in {Rmq(tree, a, b)} :
                   /\ p \in a .. b
                   /\ \A q \in a .. b :
                          values[p + 1] < values[q + 1]
                              \/ (values[p + 1] = values[q + 1] /\ p <= q)
        /\ \A b \in 0 .. tree.size : \A a \in 0 .. b :
               \A p \in {ExcessRmq(tree, a, b)} :
                   /\ p \in a .. b
                   /\ \A q \in a .. b :
                          Excess(tree, p) < Excess(tree, q)
                              \/ (Excess(tree, p) = Excess(tree, q) /\ p <= q)

=============================================================================
