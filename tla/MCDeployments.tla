--------------------------- MODULE MCDeployments ---------------------------
EXTENDS Deployments

CONSTANTS a, b, c, groq, vertex, groq_70b, groq_8b, flash, f, g

MCSelections == {groq_70b, groq_8b, flash}
MCProviderOf == groq_70b :> groq @@ groq_8b :> groq @@ flash :> vertex
MCPriced == groq :> groq_70b @@ vertex :> flash
MCVisits == {<<a, groq_8b>>, <<b, flash>>, <<c, groq_70b>>}

(* The hash sends two of the three sessions to the same number. *)
MCPRNumber == a :> 1 @@ b :> 1 @@ c :> 2

(* There is a space in the name of g. *)
MCReadAs == f :> f @@ g :> NoLabel
=============================================================================
