---------------------------- MODULE LinkedModules ----------------------------
(***************************************************************************)
(* The generators that can be linked by a group, by the module whose       *)
(* shared context they use, and the options a module merges                *)
(* (src/src/generators/types/{location,business,computer,payment,person}_  *)
(* generators.cpp).                                                        *)
(***************************************************************************)
LocationGenerators ==
    {"address_line1", "address_line2", "postcode", "full_address", "city", "region"}
BusinessGenerators == {"company_name", "industry"}
ComputerGenerators == {"file_path", "file_directory", "file_name", "file_extension"}
PaymentGenerators == {"payment_method", "card_type", "card_number", "card_date"}
PersonGenerators ==
    {"first_name", "last_name", "full_name", "gender", "title", "marital_status",
     "phone_number", "email", "job_title", "social_network_id"}
LinkedGenerators ==
    LocationGenerators \cup BusinessGenerators \cup ComputerGenerators
    \cup PaymentGenerators \cup PersonGenerators

(* What the merge_config of each module takes from the config of a field.  *)
LocationOptions == {"regions"}
BusinessOptions == {"languages"}
ComputerOptions == {"operating_systems", "extensions"}
PaymentOptions == {"languages", "card_types", "start_month", "end_month"}
PersonOptions == {"genders", "languages", "regions", "domains"}
OptionNames ==
    LocationOptions \cup BusinessOptions \cup ComputerOptions \cup PaymentOptions
    \cup PersonOptions

Modules == {"location", "business", "computer", "payment", "person"}

Module(generator) ==
    CASE generator \in LocationGenerators -> "location"
      [] generator \in BusinessGenerators -> "business"
      [] generator \in ComputerGenerators -> "computer"
      [] generator \in PaymentGenerators -> "payment"
      [] generator \in PersonGenerators -> "person"

(* region takes part in a context but merges nothing into it.              *)
MergedOptions(generator) ==
    CASE generator \in LocationGenerators \ {"region"} -> LocationOptions
      [] generator \in BusinessGenerators -> BusinessOptions
      [] generator \in ComputerGenerators -> ComputerOptions
      [] generator \in PaymentGenerators -> PaymentOptions
      [] generator \in PersonGenerators -> PersonOptions
      [] OTHER -> {}
=============================================================================
