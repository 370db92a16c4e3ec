---------------------------- MODULE MCMagicLink ----------------------------
EXTENDS MagicLink

\* Instances for TLC: rows that differ in what the choice looks at.
CONSTANT anna

Fit(name, root, updated) ==
    [status |-> "APPROVED", profile |-> TRUE, ends |-> 3, name |-> name,
     root |-> root, updated |-> updated]

MCRow == {Fit(anna, TRUE, 1), Fit(anna, TRUE, 2), Fit(anna, FALSE, 2),
          Fit(None, TRUE, 1),
          [Fit(anna, TRUE, 1) EXCEPT !.ends = 2, !.status = "ACCEPTED"],
          [Fit(anna, TRUE, 0) EXCEPT !.ends = 0],
          [Fit(anna, TRUE, 2) EXCEPT !.status = "DECLINED"],
          [Fit(anna, TRUE, 2) EXCEPT !.profile = FALSE]}
=============================================================================
