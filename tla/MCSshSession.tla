---------------------------- MODULE MCSshSession ----------------------------
(* SshSession on a small instance: the lists of requests and the outputs.  *)
EXTENDS SshSession

CONSTANTS stat, dir, uname, blank, url, zero, one

MCBatches == {<<stat, uname, stat, blank>>, <<dir, url>>, <<url, blank>>}
MCOutputs ==
  {[body |-> <<>>, exit_code |-> <<one>>],
   [body |-> <<"x">>, exit_code |-> <<zero>>],
   [body |-> <<"x", "nl">>, exit_code |-> <<zero>>]}
=============================================================================
