----------------------------- MODULE MCRequests -----------------------------
(* Small instances of Requests for TLC. *)
EXTENDS Requests

CONSTANT a

SomeBundles == { << >>, << "CERTIFICATE" >>, << "CERTIFICATE", "CERTIFICATE" >>,
                 << "CERTIFICATE", "text" >>, << "text" >>, << "number" >>,
                 << "CERTIFICATE", "number" >> }

Answer(certificate, key, chain) ==
  [certificate |-> certificate, private_key |-> key, ca_chain |-> chain]

\* whole; with a certificate that is none; and one flaw each: no certificate, no
\* key, no chain, a chain that is no list of strings
PkiAnswers == { Answer(<< "CERTIFICATE" >>, TRUE,  << "CERTIFICATE", "CERTIFICATE" >>),
                Answer(<< "text" >>,        TRUE,  << "CERTIFICATE" >>),
                Answer(<< >>,               TRUE,  << "CERTIFICATE" >>),
                Answer(<< "CERTIFICATE" >>, FALSE, << "CERTIFICATE" >>),
                Answer(<< "CERTIFICATE" >>, TRUE,  << >>),
                Answer(<< "CERTIFICATE" >>, TRUE,  << "CERTIFICATE", "number" >>) }

\* whole; the leaf alone; and one flaw each: no certificate, no key, a block of
\* another type
LeAnswers == { Answer(<< "CERTIFICATE", "CERTIFICATE" >>, TRUE,  << >>),
               Answer(<< "CERTIFICATE" >>,                TRUE,  << >>),
               Answer(<< >>,                              TRUE,  << >>),
               Answer(<< "CERTIFICATE", "CERTIFICATE" >>, FALSE, << >>),
               Answer(<< "CERTIFICATE", "text" >>,        TRUE,  << >>) }

NoNamesAndOne == { {}, {a} }
=============================================================================
