SPECIFICATION Spec
CONSTANTS
  ViewerViews = {"dashboard", "events"}
  AdminViews = {"alerts", "settings"}
  Home = "dashboard"
  MaxLogouts = 2
  MaxHops = 4
INVARIANTS RedirectsEnd ShownSuitsUser IdentityLostLeaves
